---- MODULE Spec2Model ----
(***************************************************************************)
(* A model of the mailbot_v26 fact-extraction and validation pipeline.     *)
(*                                                                         *)
(* Text is a sequence of Unicode code points (Python str), so that case    *)
(* folding, character classes, slicing and length are what the code        *)
(* computes.  The comment above a literal gives the text it stands for.    *)
(***************************************************************************)
EXTENDS Integers, Sequences, FiniteSets, TLC

VARIABLES
    pc,              \* which operation has run on the inputs
    summary,         \* validate_summary: the candidate summary
    original_text,   \* validate_summary: the source text
    validator_out,   \* result of bot_core/validator.py validate_summary
    validation_out,  \* result of bot_core/validation.py validate_summary
    account_login,   \* pipeline process: the account the message came to
    message,         \* pipeline process: the InboundMessage
    llm_call,        \* config.llm_call: the remote collaborator
    now,             \* what datetime.now() yields
    assembled,       \* _build: the text before the length cap
    final_text,      \* what pipeline process returned
    llm_calls,       \* the calls of llm_call made, in order
    input_text,      \* LLMSummarizer: the text to summarize
    email_summary,   \* what summarize_email returned, with the calls it made
    attachment_summary,  \* what summarize_attachment returned, with its calls
    manager,         \* the StateManager of the running process
    state_file,      \* the state file on disk
    tmp_file,        \* the temporary file of save, next to the state file
    wall_clock,      \* what datetime.now() yields, in seconds
    saving,          \* a call of save in progress: its locals
    reopened,        \* a second StateManager opened on the state file
    mutations,       \* how many times the state has been changed
    sections,        \* accounts.ini: its sections, in file order
    mailbox,         \* the UIDs in the INBOX of each account's server
    main_pc,         \* main: where the process is
    starts,          \* how many times the process has been started
    accounts,        \* main: config.accounts
    cycle,           \* main: the cycle counter
    account_index,   \* main: the position of the for loop over config.accounts
    batch,           \* main: new_messages not yet taken by the message loop
    pending,         \* the fetched messages the message loop has not taken
    failed,          \* the accounts whose handling raised in the current cycle
    handed,          \* the (login, UID) pairs handed to the processor so far
    rehanded,        \* the pairs handed to the processor more than once
    ok,              \* main: the local `ok` of the message loop
    time_time,       \* what time.time() yields, in tenths of a second
    llm_lock,        \* CloudflareLLM._lock: the thread that holds it
    last_call,       \* CloudflareLLM._last_call
    llm_threads,     \* the threads that call ask, each at its statement
    request_times,   \* the times at which requests.post was called, in order
    asked,           \* the last call of ask by a single caller, and what it did
    chunk_call,      \* chunk_text: its arguments text, size, overlap
    chunk_start,     \* chunk_text: start
    chunk_list,      \* chunk_text: chunks
    chunk_pc,        \* chunk_text: "off", "while" or "returned"
    text_in,         \* the text a function of text/ is applied to
    text_out,        \* what the function returned
    opened,          \* StateManager(state_file) on a file of any content: how it ended
    fetch_call          \* the last call of fetch_new_messages, and the calls before it

validate_vars == <<summary, original_text, validator_out, validation_out>>

pipeline_vars == <<account_login, message, llm_call, now, assembled, final_text, llm_calls>>

summarizer_vars == <<input_text, email_summary, attachment_summary>>

state_vars == <<manager, state_file, tmp_file, wall_clock, saving, reopened, mutations>>

main_vars ==
    <<sections, mailbox, main_pc, starts, accounts, cycle, account_index, batch, pending,
      failed, handed, rehanded, ok>>

client_vars == <<time_time, llm_lock, last_call, llm_threads, request_times>>

ask_vars == <<asked>>

chunker_vars == <<chunk_call, chunk_start, chunk_list, chunk_pc>>

text_vars == <<text_in, text_out>>

open_vars == <<opened>>

fetch_vars == <<fetch_call>>

tools_vars == <<chunker_vars, text_vars, open_vars, fetch_vars>>

runtime_vars == <<state_vars, main_vars, client_vars, ask_vars, tools_vars>>

other_vars == <<summarizer_vars, runtime_vars>>

vars == <<pc, validate_vars, pipeline_vars, other_vars>>

(***************************************************************************)
(* Python values                                                           *)
(***************************************************************************)

\* Optional[str]
None == [some |-> FALSE, text |-> << >>]
Some(t) == [some |-> TRUE, text |-> t]

\* bool(text): the empty string is falsy
Truthy(s) == Len(s) > 0

(***************************************************************************)
(* Characters                                                              *)
(***************************************************************************)

\* str.isdigit / regex \d on str: decimal digits (ASCII and Arabic-Indic)
IsDigit(c) == c \in 48..57 \/ c \in 1632..1641

\* str.isspace / regex \s on str
IsSpace(c) ==
    \/ c \in {9, 10, 11, 12, 13, 28, 29, 30, 31, 32, 133, 160}
    \/ c \in {5760, 8232, 8233, 8239, 8287, 12288}
    \/ c \in 8192..8202

\* Latin and Cyrillic letters
IsUpperLetter(c) == c \in 65..90 \/ c \in 1024..1071
IsLowerLetter(c) == c \in 97..122 \/ c \in 1072..1119

\* regex \w on str: letters, digits and the underscore
IsWord(c) == IsUpperLetter(c) \/ IsLowerLetter(c) \/ IsDigit(c) \/ c = 95

\* str.lower on one character
LowerC(c) ==
    IF c \in 65..90 \/ c \in 1040..1071 THEN c + 32
    ELSE IF c \in 1024..1039 THEN c + 80
    ELSE c

\* str.upper on one character
UpperC(c) ==
    IF c \in 97..122 \/ c \in 1072..1103 THEN c - 32
    ELSE IF c \in 1104..1119 THEN c - 80
    ELSE c

(***************************************************************************)
(* Strings                                                                 *)
(***************************************************************************)

\* the list (or str) whose k-th element is f[k], as a tuple
AsSeq(f) == SubSeq(f, 1, Len(f))

\* s.lower()
Lower(s) == AsSeq([i \in 1..Len(s) |-> LowerC(s[i])])

\* s.upper()
Upper(s) == AsSeq([i \in 1..Len(s) |-> UpperC(s[i])])

\* s[a-1:b] in Python terms, empty when a > b
Slice(s, a, b) == IF a > b THEN << >> ELSE SubSeq(s, a, b)

\* pat occurs in s at index i
MatchAt(s, pat, i) ==
    /\ i >= 1
    /\ i + Len(pat) - 1 <= Len(s)
    /\ \A k \in 1..Len(pat) : s[i + k - 1] = pat[k]

\* `pat in s`
Contains(s, pat) ==
    \/ Len(pat) = 0
    \/ \E i \in 1..(Len(s) - Len(pat) + 1) :
          s[i] = pat[1] /\ \A k \in 2..Len(pat) : s[i + k - 1] = pat[k]

\* s.startswith(pat)
StartsWith(s, pat) == MatchAt(s, pat, 1)

\* s.endswith(pat)
EndsWith(s, pat) == MatchAt(s, pat, Len(s) - Len(pat) + 1)

\* s.find(pat, from) as a 1-based index, 0 when absent
FindFrom(s, pat, from) ==
    IF \E i \in from..(Len(s) - Len(pat) + 1) : MatchAt(s, pat, i)
    THEN CHOOSE i \in from..(Len(s) - Len(pat) + 1) :
            /\ MatchAt(s, pat, i)
            /\ \A j \in from..(i - 1) : ~MatchAt(s, pat, j)
    ELSE 0

Find(s, pat) == FindFrom(s, pat, 1)

\* least index >= from whose character satisfies Test, 0 when there is none
FirstIndex(s, from, Test(_)) ==
    IF \E i \in from..Len(s) : Test(s[i])
    THEN CHOOSE i \in from..Len(s) :
            /\ Test(s[i])
            /\ \A j \in from..(i - 1) : ~Test(s[j])
    ELSE 0

\* greatest index whose character satisfies Test, 0 when there is none
LastIndex(s, Test(_)) ==
    IF Len(s) > 0 /\ Test(s[Len(s)]) THEN Len(s)
    ELSE IF \E i \in 1..Len(s) : Test(s[i])
    THEN CHOOSE i \in 1..Len(s) :
            /\ Test(s[i])
            /\ \A j \in (i + 1)..Len(s) : ~Test(s[j])
    ELSE 0

\* end of the run of Test characters that starts at index a: the greatest b
\* with Test on a..b (a - 1 when s[a] fails Test)
RunEnd(s, a, Test(_)) ==
    LET stop == FirstIndex(s, a, LAMBDA c : ~Test(c))
    IN  IF stop = 0 THEN Len(s) ELSE stop - 1

\* s.strip(chars) with chars given as a test
StripBy(s, Test(_)) ==
    LET a == FirstIndex(s, 1, LAMBDA c : ~Test(c))
        b == LastIndex(s, LAMBDA c : ~Test(c))
    IN  IF a = 0 THEN << >> ELSE SubSeq(s, a, b)

\* s.rstrip(chars)
RStripBy(s, Test(_)) ==
    LET b == LastIndex(s, LAMBDA c : ~Test(c))
    IN  IF b = 0 THEN << >> ELSE SubSeq(s, 1, b)

\* s.strip()
Strip(s) == StripBy(s, IsSpace)

\* s.split(sep) for a one-character separator: always at least one piece
RECURSIVE SplitFrom(_, _, _)
SplitFrom(s, sep, from) ==
    LET p == FirstIndex(s, from, LAMBDA c : c = sep)
    IN  IF p = 0
        THEN << Slice(s, from, Len(s)) >>
        ELSE << Slice(s, from, p - 1) >> \o SplitFrom(s, sep, p + 1)

Split(s, sep) == SplitFrom(s, sep, 1)

\* sep.join(parts)
RECURSIVE Join(_, _)
Join(parts, sep) ==
    IF Len(parts) = 0 THEN << >>
    ELSE IF Len(parts) = 1 THEN parts[1]
    ELSE parts[1] \o sep \o Join(Tail(parts), sep)

\* the maximal runs of Test characters of s, as a set of strings
Runs(s, Test(_)) ==
    { SubSeq(s, a, RunEnd(s, a, Test)) :
        a \in { i \in 1..Len(s) : Test(s[i]) /\ (i = 1 \/ ~Test(s[i - 1])) } }

\* set(s.split()): the whitespace-separated words
Words(s) == Runs(s, LAMBDA c : ~IsSpace(c))

\* [f(x) for x in xs]
MapSeq(xs, F(_)) == AsSeq([i \in 1..Len(xs) |-> F(xs[i])])

\* `x = value` followed by the rest of a function body: the value is
\* computed once, before the statements that read it
Bind(value, Rest(_)) == CHOOSE result \in { Rest(x) : x \in { value } } : TRUE

Pipe == 124
Space == 32
Newline == 10

(***************************************************************************)
(* Regular expressions shared by the validators                            *)
(***************************************************************************)

\* set(re.findall(r"\d+", s)): the maximal digit-runs of s
DigitRuns(s) == Runs(s, IsDigit)

\* [./-]
IsDateSep(c) == c \in {46, 47, 45}

\* number of digits (at most cap) at the start of s[i..]
DigitsAt(s, i, cap) ==
    Cardinality({ k \in 1..cap :
        \A m \in 1..k : i + m - 1 <= Len(s) /\ IsDigit(s[i + m - 1]) })

\* \d{1,2}[./-] at index i: the number of digits taken (0: no match).  The
\* separator must follow the digits, so backtracking leaves one choice.
DayPartAt(s, i) ==
    LET d == DigitsAt(s, i, 2)
    IN  IF d = 2 /\ i + 2 <= Len(s) /\ IsDateSep(s[i + 2]) THEN 2
        ELSE IF d >= 1 /\ i + 1 <= Len(s) /\ IsDateSep(s[i + 1]) THEN 1
        ELSE 0

\* r"\d{1,2}[./-]\d{1,2}[./-]\d{2,4}" matched at index i: the index of the
\* last character of the match, 0 when there is no match at i
DateEndAt(s, i) ==
    LET l1 == DayPartAt(s, i)
        j  == i + l1 + 1
        l2 == IF l1 = 0 THEN 0 ELSE DayPartAt(s, j)
        k  == j + l2 + 1
        l3 == IF l2 = 0 THEN 0 ELSE DigitsAt(s, k, 4)
    IN  IF l1 > 0 /\ l2 > 0 /\ l3 >= 2 THEN k + l3 - 1 ELSE 0

\* set(re.findall(date_pattern, s)): leftmost non-overlapping matches
RECURSIVE DatesFrom(_, _)
DatesFrom(s, from) ==
    IF \E i \in from..Len(s) : DateEndAt(s, i) # 0
    THEN LET i == CHOOSE i \in from..Len(s) :
                    /\ DateEndAt(s, i) # 0
                    /\ \A j \in from..(i - 1) : DateEndAt(s, j) = 0
             e == DateEndAt(s, i)
         IN  { SubSeq(s, i, e) } \cup DatesFrom(s, e + 1)
    ELSE {}

FindDates(s) == DatesFrom(s, 1)

\* date.replace("/", ".").replace("-", ".")  /  re.sub(r"[/-]", ".", value)
NormalizeDate(d) == AsSeq([i \in 1..Len(d) |-> IF d[i] \in {47, 45} THEN 46 ELSE d[i]])

(***************************************************************************)
(* bot_core/validator.py                                                   *)
(***************************************************************************)

\* 'NONE'
NONE_UPPER == <<78, 79, 78, 69>>

\* ' | '
SEP_JOIN == <<32, 124, 32>>

\* 'ДЕЙСТВИЕ:'
ACTION_LABEL == <<1044, 1045, 1049, 1057, 1058, 1042, 1048, 1045, 58>>

\* ["не", "нет", "ни", "без", "отказ", "отмена", "cancel"]
NEGATIONS ==
    { <<1085, 1077>>, <<1085, 1077, 1090>>, <<1085, 1080>>, <<1073, 1077, 1079>>,
      <<1086, 1090, 1082, 1072, 1079>>, <<1086, 1090, 1084, 1077, 1085, 1072>>,
      <<99, 97, 110, 99, 101, 108>> }

\* the window of check_negation: fact_pos - 50
NEGATION_WINDOW == 50

\* min_similarity = 0.35, in hundredths
MIN_SIMILARITY == 35

\* clean_none dropping only the segments that are "NONE" themselves
validator_clean_none_whole_token(text) ==
    IF ~Truthy(text) \/ Upper(Strip(text)) = NONE_UPPER THEN << >>
    ELSE LET segments == Split(text, Pipe)
             kept == SelectSeq(segments, LAMBDA seg : Upper(Strip(seg)) # NONE_UPPER)
         IN  Join(MapSeq(kept, Strip), SEP_JOIN)

\* clean_none of validator.py
validator_clean_none(text) ==
    IF ~Truthy(text) \/ Upper(Strip(text)) = NONE_UPPER THEN << >>
    ELSE LET segments == Split(text, Pipe)
             kept == SelectSeq(segments, LAMBDA seg : ~Contains(Upper(seg), NONE_UPPER))
         IN  Join(MapSeq(kept, Strip), SEP_JOIN)

\* validate_numbers accepting a number that occurs anywhere in the source
validator_validate_numbers_substring(s, original) ==
    \A run \in DigitRuns(s) : Contains(original, run)

\* validate_numbers of validator.py
validator_validate_numbers(s, original) ==
    DigitRuns(s) \subseteq DigitRuns(original)

\* validate_dates of validator.py
validator_validate_dates(s, original) ==
    \A date \in FindDates(s) :
        \E o \in FindDates(original) : NormalizeDate(date) = NormalizeDate(o)

\* check_negation
check_negation(text, fact) ==
    IF ~Truthy(fact) THEN FALSE
    ELSE LET text_lower == Lower(text)
             fact_lower == Lower(fact)
             fact_pos == Find(text_lower, fact_lower)
         IN  IF fact_pos = 0 THEN FALSE
             ELSE LET window_start == IF fact_pos - 1 - NEGATION_WINDOW > 0
                                      THEN fact_pos - 1 - NEGATION_WINDOW ELSE 0
                      context == Slice(text_lower, window_start + 1, fact_pos - 1)
                  IN  \E neg \in NEGATIONS : Contains(context, neg)

\* a similarity as the fraction num/den
Ratio(inter, union) == [num |-> Cardinality(inter), den |-> Cardinality(union)]
ZeroRatio == [num |-> 0, den |-> 1]

\* similarity < min_similarity, min_similarity in hundredths
BelowSimilarity(r, min_pct) == 100 * r.num < min_pct * r.den

\* jaccard_similarity of validator.py
validator_jaccard_similarity(text1, text2) ==
    LET words1 == Words(Lower(text1))
        words2 == Words(Lower(text2))
    IN  IF words1 = {} \/ words2 = {} THEN ZeroRatio
        ELSE Ratio(words1 \cap words2, words1 \cup words2)

\* re.search(r"ДЕЙСТВИЕ:\s*(\w+)", s, re.IGNORECASE) matched at index i: the
\* index where group 1 starts, 0 when there is no match at i (folded is s
\* with its case folded)
ActionVerbAt(s, folded, i) ==
    IF ~MatchAt(folded, Lower(ACTION_LABEL), i) THEN 0
    ELSE LET after == i + Len(ACTION_LABEL)
             w == FirstIndex(s, after, LAMBDA c : ~IsSpace(c))
         IN  IF w # 0 /\ IsWord(s[w]) THEN w ELSE 0

\* the search: [found, verb], verb being group(1) of the leftmost match
action_match(s) ==
    LET folded == Lower(s)
    IN  IF \E i \in 1..Len(s) : ActionVerbAt(s, folded, i) # 0
        THEN LET i == CHOOSE i \in 1..Len(s) :
                        /\ ActionVerbAt(s, folded, i) # 0
                        /\ \A j \in 1..(i - 1) : ActionVerbAt(s, folded, j) = 0
                 w == ActionVerbAt(s, folded, i)
             IN  [found |-> TRUE, verb |-> SubSeq(s, w, RunEnd(s, w, IsWord))]
        ELSE [found |-> FALSE, verb |-> << >>]

\* r"\|\s*ДЕЙСТВИЕ:[^|]+" matched at index i (case-sensitive): the index of
\* the last character of the match, 0 when there is no match at i
ActionSegmentEndAt(s, i) ==
    IF i > Len(s) \/ s[i] # Pipe THEN 0
    ELSE LET l == FirstIndex(s, i + 1, LAMBDA c : ~IsSpace(c))
         IN  IF l = 0 \/ ~MatchAt(s, ACTION_LABEL, l) THEN 0
             ELSE LET body == l + Len(ACTION_LABEL)
                  IN  IF body > Len(s) \/ s[body] = Pipe THEN 0
                      ELSE RunEnd(s, body, LAMBDA c : c # Pipe)

\* re.sub(r"\|\s*ДЕЙСТВИЕ:[^|]+", "", s)
RECURSIVE RemoveActionSegmentsFrom(_, _)
RemoveActionSegmentsFrom(s, from) ==
    IF \E i \in from..Len(s) : ActionSegmentEndAt(s, i) # 0
    THEN LET i == CHOOSE i \in from..Len(s) :
                    /\ ActionSegmentEndAt(s, i) # 0
                    /\ \A j \in from..(i - 1) : ActionSegmentEndAt(s, j) = 0
         IN  Slice(s, from, i - 1) \o RemoveActionSegmentsFrom(s, ActionSegmentEndAt(s, i) + 1)
    ELSE Slice(s, from, Len(s))

remove_action_segment(s) ==
    Strip(StripBy(Strip(RemoveActionSegmentsFrom(s, 1)), LAMBDA c : c = Pipe))

\* validate_summary of validator.py, from the negation step on
validator_after_grounding(cleaned, original, min_pct) ==
    LET m == action_match(cleaned)
        negated == m.found /\ check_negation(original, m.verb)
        kept == IF negated THEN remove_action_segment(cleaned) ELSE cleaned
    IN  IF negated /\ ~Truthy(kept) THEN None
        ELSE IF BelowSimilarity(validator_jaccard_similarity(kept, original), min_pct)
        THEN None
        ELSE Some(kept)

\* validate_summary of validator.py
validator_validate_summary(s, original, min_pct) ==
    IF ~Truthy(s) \/ Upper(Strip(s)) = NONE_UPPER THEN None
    ELSE LET cleaned == validator_clean_none(s)
         IN  IF ~Truthy(cleaned) THEN None
             ELSE IF ~validator_validate_numbers(cleaned, original) THEN None
             ELSE IF ~validator_validate_dates(cleaned, original) THEN None
             ELSE validator_after_grounding(cleaned, original, min_pct)

(***************************************************************************)
(* bot_core/validation.py                                                  *)
(***************************************************************************)

\* 'none'
NONE_LOWER == <<110, 111, 110, 101>>

\* drop_none_tokens
drop_none_tokens(facts_line) ==
    IF ~Truthy(facts_line) THEN << >>
    ELSE LET tokens == SelectSeq(MapSeq(Split(facts_line, Pipe), Strip), Truthy)
             filtered == SelectSeq(tokens, LAMBDA t : Lower(t) # NONE_LOWER)
         IN  Strip(Join(filtered, SEP_JOIN))

\* clean_none of validation.py
validation_clean_none(text) ==
    IF ~Truthy(text) THEN << >>
    ELSE IF Lower(Strip(text)) = NONE_LOWER THEN << >>
    ELSE LET segments == SelectSeq(MapSeq(Split(text, Pipe), Strip), Truthy)
             filtered == SelectSeq(segments, LAMBDA seg : ~Contains(Lower(seg), NONE_LOWER))
         IN  Join(filtered, SEP_JOIN)

\* r"\d+[\d\s]*[\.,]?\d*" matched at a digit at index i: the index of the
\* last character of the match
NumberEndAt(s, i) ==
    LET e1 == RunEnd(s, i, LAMBDA c : IsDigit(c) \/ IsSpace(c))
        e2 == IF e1 + 1 <= Len(s) /\ s[e1 + 1] \in {46, 44} THEN e1 + 1 ELSE e1
    IN  RunEnd(s, e2 + 1, IsDigit)

\* _extract_numbers: the stripped matches, as a set
RECURSIVE NumbersFrom(_, _)
NumbersFrom(s, from) ==
    LET i == FirstIndex(s, from, IsDigit)
    IN  IF i = 0 THEN {}
        ELSE { Strip(SubSeq(s, i, NumberEndAt(s, i))) } \cup NumbersFrom(s, NumberEndAt(s, i) + 1)

extract_numbers(s) == NumbersFrom(s, 1)

\* validate_numbers of validation.py
validation_validate_numbers(s, original) ==
    \A number \in extract_numbers(s) : Contains(original, number)

\* validate_dates of validation.py
validation_validate_dates(s, original) ==
    \A date \in { NormalizeDate(d) : d \in FindDates(s) } :
        date \in { NormalizeDate(o) : o \in FindDates(original) }

\* {"на", "до", "и", "в", "к", "по", "за", "с", "от", "просим"}
STOP_WORDS ==
    { <<1085, 1072>>, <<1076, 1086>>, <<1080>>, <<1074>>, <<1082>>, <<1087, 1086>>,
      <<1079, 1072>>, <<1089>>, <<1086, 1090>>, <<1087, 1088, 1086, 1089, 1080, 1084>> }

\* "аеёиоуыэюяй"
IsStemVowel(c) == c \in {1072, 1077, 1080, 1081, 1086, 1091, 1099, 1101, 1102, 1103, 1105}

\* the shortest token the stemmer cuts
STEM_MIN_LEN == 3

\* while len(token) > 3 and token[-1] in "аеёиоуыэюяй": token = token[:-1]
stem(token) ==
    IF Len(token) <= STEM_MIN_LEN THEN token
    ELSE LET b == LastIndex(token, LAMBDA c : ~IsStemVowel(c))
         IN  SubSeq(token, 1, IF b > STEM_MIN_LEN THEN b ELSE STEM_MIN_LEN)

\* raw.replace("ё", "е").strip("._"), then stemmed
normalize_token(raw) ==
    stem(StripBy([i \in 1..Len(raw) |-> IF raw[i] = 1105 THEN 1077 ELSE raw[i]],
                 LAMBDA c : c \in {46, 95}))

\* _tokenize of validation.py jaccard_similarity
tokenize(text) ==
    { tok \in { normalize_token(raw) :
                  raw \in Runs(Lower(text), LAMBDA c : IsWord(c) \/ c = 46) } :
        Truthy(tok) /\ tok \notin STOP_WORDS }

\* jaccard_similarity of validation.py
validation_jaccard_similarity(text1, text2) ==
    LET tokens1 == tokenize(text1)
        tokens2 == tokenize(text2)
    IN  IF tokens1 = {} \/ tokens2 = {} THEN ZeroRatio
        ELSE Ratio(tokens1 \cap tokens2, tokens1 \cup tokens2)

\* validate_summary of validation.py
validation_validate_summary(s, original, min_pct) ==
    LET cleaned == validation_clean_none(s)
    IN  IF ~Truthy(cleaned) THEN None
        ELSE IF ~validation_validate_numbers(cleaned, original) THEN None
        ELSE IF ~validation_validate_dates(cleaned, original) THEN None
        ELSE IF BelowSimilarity(validation_jaccard_similarity(cleaned, original), min_pct)
        THEN None
        ELSE Some(cleaned)

(***************************************************************************)
(* text/sanitize.py                                                        *)
(***************************************************************************)

\* "..."
ELLIPSIS == <<46, 46, 46>>

\* [1, ..., len(s)]
Indices(s) == AsSeq([i \in 1..Len(s) |-> i])

\* s.replace(c, "") for one character c
Remove(s, c) == SelectSeq(s, LAMBDA x : x # c)

\* BINARY_MARKERS
BINARY_MARKERS ==
    { <<105, 104, 100, 114>>,  \* 'ihdr'
      <<105, 100, 97, 116>>,  \* 'idat'
      <<112, 107>>,  \* 'pk'
      <<99, 111, 110, 116, 101, 110, 116, 95, 116, 121, 112, 101, 115>>,  \* 'content_types'
      <<61, 63, 107, 111, 105, 56>>,  \* '=?koi8'
      <<98, 97, 115, 101, 54, 52>>,  \* 'base64'
      <<105, 109, 97, 103, 101, 47, 112, 110, 103>>,  \* 'image/png'
      <<122, 105, 112>> }  \* 'zip'

\* [A-Za-z0-9+/]
IsBase64Char(c) == c \in 65..90 \/ c \in 97..122 \/ c \in 48..57 \/ c \in {43, 47}

\* BASE64_RUN: the least length of a run of base64 characters that matches
BASE64_RUN_MIN == 40

\* BASE64_RUN.search(data) finds a match
HasBase64Run(data) ==
    \E i \in 1..(Len(data) - BASE64_RUN_MIN + 1) :
        \A k \in 0..(BASE64_RUN_MIN - 1) : IsBase64Char(data[i + k])

\* str.isprintable on one character: false for the control characters, for
\* the separators other than the space and for the format characters
IsPrintable(c) ==
    ~(\/ c \in 0..31
      \/ c \in 127..160
      \/ c \in {173, 1564, 5760, 6158, 8239, 8287, 12288, 65279}
      \/ c \in 1536..1541
      \/ c \in 8192..8207
      \/ c \in 8232..8238
      \/ c \in 8288..8303
      \/ c \in 55296..63743
      \/ c \in 65520..65531)

\* is_binaryish(line)
is_binaryish(data) ==
    IF ~Truthy(data) THEN FALSE
    ELSE IF \E i \in 1..Len(data) : data[i] = 0 THEN TRUE
    ELSE IF LET lowered == Lower(data)
            IN  \E marker \in BINARY_MARKERS : Contains(lowered, marker) THEN TRUE
    ELSE IF HasBase64Run(data) THEN TRUE
    ELSE LET non_printable ==
                 Cardinality({ i \in 1..Len(data) :
                                 ~(IsPrintable(data[i]) \/ data[i] \in {10, 13, 9}) })
         IN  non_printable > 5 /\ 100 * non_printable > 2 * Len(data)

\* text.replace("\r\n", "\n").replace("\r", "\n")
normalize_newlines(s) ==
    LET keep == SelectSeq(Indices(s),
                          LAMBDA i : ~(s[i] = 13 /\ i < Len(s) /\ s[i + 1] = 10))
    IN  AsSeq([k \in 1..Len(keep) |-> IF s[keep[k]] = 13 THEN Newline ELSE s[keep[k]]])

\* re.sub(r"\s+", " ", line).strip()
collapse_spaces(line) ==
    LET keep == SelectSeq(Indices(line),
                          LAMBDA i : ~(IsSpace(line[i]) /\ i > 1 /\ IsSpace(line[i - 1])))
    IN  Strip(AsSeq([k \in 1..Len(keep) |->
                        IF IsSpace(line[keep[k]]) THEN Space ELSE line[keep[k]]]))

\* the loop that keeps one blank line of every run of blank lines
collapse_blank_lines(lines) ==
    LET keep == SelectSeq(Indices(lines),
                          LAMBDA k : Truthy(lines[k]) \/ k = 1 \/ Truthy(lines[k - 1]))
    IN  AsSeq([k \in 1..Len(keep) |-> lines[keep[k]]])

\* raw_line.strip("\ufeff")
strip_bom(line) == StripBy(line, LAMBDA c : c = 65279)

\* sanitize_text(text, max_len) on a str
sanitize_text(text, max_len) ==
    Bind(Remove(normalize_newlines(text), 0), LAMBDA normalized :
    Bind(SelectSeq(MapSeq(Split(normalized, Newline), strip_bom),
                   LAMBDA line : ~is_binaryish(line)), LAMBDA safe_lines :
    Bind(collapse_blank_lines(MapSeq(safe_lines, collapse_spaces)), LAMBDA collapsed :
    Bind(Strip(Join(collapsed, << Newline >>)), LAMBDA cleaned :
    IF Len(cleaned) > max_len
    THEN SubSeq(cleaned, 1, max_len - 3) \o ELLIPSIS
    ELSE cleaned))))

(***************************************************************************)
(* text/clean_email.py                                                     *)
(***************************************************************************)

\* FORWARD_MARKERS
FORWARD_MARKERS ==
    { <<102, 114, 111, 109, 58>>,  \* 'from:'
      <<115, 101, 110, 116, 58>>,  \* 'sent:'
      <<116, 111, 58>>,  \* 'to:'
      <<115, 117, 98, 106, 101, 99, 116, 58>>,  \* 'subject:'
      <<1086, 1090, 58>>,  \* 'от:'
      <<1082, 1086, 1084, 1091, 58>>,  \* 'кому:'
      <<1090, 1077, 1084, 1072, 58>>,  \* 'тема:'
      <<1086, 1090, 1087, 1088, 1072, 1074, 1083, 1077, 1085, 1086, 58>>,  \* 'отправлено:'
      <<45, 45, 45, 45, 45, 111, 114, 105, 103, 105, 110, 97, 108, 32, 109, 101, 115, 115, 97, 103,
        101, 45, 45, 45, 45, 45>>,  \* '-----original message-----'
      <<45, 45, 45, 45, 45, 32, 102, 111, 114, 119, 97, 114, 100, 101, 100, 32, 109, 101, 115, 115,
        97, 103, 101, 32, 45, 45, 45, 45, 45>> }  \* '----- forwarded message -----'

\* SIGNATURE_MARKERS
SIGNATURE_MARKERS ==
    { <<1089, 32, 1091, 1074, 1072, 1078, 1077, 1085, 1080, 1077, 1084, 44>>,  \* 'с уважением,'
      <<114, 101, 103, 97, 114, 100, 115, 44>> }  \* 'regards,'

\* "--"
DASHES == <<45, 45>>

\* a test for forward markers that does not fold the case
is_forward_start_case_sensitive(line) ==
    LET trimmed == Strip(line)
    IN  StartsWith(trimmed, DASHES) \/ \E marker \in FORWARD_MARKERS : StartsWith(trimmed, marker)

\* _is_forward_start(line)
is_forward_start(line) ==
    LET lower == Lower(Strip(line))
    IN  StartsWith(lower, DASHES) \/ \E marker \in FORWARD_MARKERS : StartsWith(lower, marker)

\* _is_signature_start(line)
is_signature_start(line) ==
    LET lower == Lower(Strip(line))
    IN  StartsWith(lower, DASHES) \/ \E marker \in SIGNATURE_MARKERS : StartsWith(lower, marker)

\* re.sub(r"\n{3,}", "\n\n", s): a run of newlines keeps its first two
collapse_newlines(s) ==
    LET keep == SelectSeq(Indices(s),
                          LAMBDA i : ~(/\ i > 2
                                       /\ s[i] = Newline
                                       /\ s[i - 1] = Newline
                                       /\ s[i - 2] = Newline))
    IN  AsSeq([k \in 1..Len(keep) |-> s[keep[k]]])

\* clean_email_body(text) on a str
clean_email_body(text) ==
    LET IsCut(line) == is_forward_start(line) \/ is_signature_start(line)
        Kept(lines) == IF \E k \in 1..Len(lines) : IsCut(lines[k])
                       THEN SubSeq(lines, 1,
                                   (CHOOSE k \in 1..Len(lines) :
                                       /\ IsCut(lines[k])
                                       /\ \A j \in 1..(k - 1) : ~IsCut(lines[j])) - 1)
                       ELSE lines
    IN  Bind(Split(normalize_newlines(text), Newline), LAMBDA lines :
        Bind(Kept(lines), LAMBDA cleaned :
        Bind(collapse_blank_lines(MapSeq(cleaned, Strip)), LAMBDA collapsed :
        Bind(Strip(Join(collapsed, << Newline >>)), LAMBDA result :
        collapse_newlines(result)))))

(***************************************************************************)
(* llm/chunker.py                                                          *)
(***************************************************************************)

\* chunk_text defaults
CHUNK_SIZE == 2000
CHUNK_OVERLAP == 250

\* the while loop of chunk_text, from the 0-based window start
RECURSIVE ChunksFrom(_, _, _, _)
ChunksFrom(text, start, size, overlap) ==
    IF start >= Len(text) THEN << >>
    ELSE LET end == start + size
             chunk == Strip(Slice(text, start + 1, IF end < Len(text) THEN end ELSE Len(text)))
             next == IF end - overlap < 0 THEN 0 ELSE end - overlap
         IN  (IF Truthy(chunk) THEN << chunk >> ELSE << >>) \o
             ChunksFrom(text, next, size, overlap)

\* chunk_text(text, size, overlap)
chunk_text(text, size, overlap) ==
    IF ~Truthy(text) THEN << >> ELSE ChunksFrom(text, 0, size, overlap)

(***************************************************************************)
(* llm/summarizer.py                                                       *)
(*                                                                         *)
(* The remote collaborator is llm_call: not configured (None), or a        *)
(* callable whose k-th call has the outcome replies[k], the list taken     *)
(* cyclically: a str, another value, or a raised exception.  Its outcome   *)
(* does not depend on the prompt.  A summarizer operator takes the number  *)
(* of calls made before it and yields its text with the calls it made.     *)
(***************************************************************************)

\* outcomes of one call of llm_call
Reply(t) == [kind |-> "str", text |-> t]
Raises == [kind |-> "raise", text |-> << >>]
NotStr == [kind |-> "other", text |-> << >>]

\* llm_call
NoLLM == [configured |-> FALSE, replies |-> << >>]
LLM(replies) == [configured |-> TRUE, replies |-> replies]

\* _fallback: the most characters of the input it keeps
FALLBACK_LEN == 600

\* _safe_call(prompt), as the k-th call of llm_call
safe_call(llm, k) ==
    IF ~llm.configured THEN << >>
    ELSE LET result == llm.replies[((k - 1) % Len(llm.replies)) + 1]
         IN  IF result.kind = "str" THEN result.text ELSE << >>

\* a fallback that marks every input longer than the limit, trimmed or not
fallback_marks_untrimmed(text) ==
    LET trimmed == Strip(text)
    IN  IF Len(text) > FALLBACK_LEN
        THEN SubSeq(trimmed, 1, IF Len(trimmed) < FALLBACK_LEN THEN Len(trimmed)
                                ELSE FALLBACK_LEN) \o ELLIPSIS
        ELSE trimmed

\* _fallback(text)
fallback(text) ==
    LET trimmed == Strip(text)
    IN  IF Len(trimmed) > FALLBACK_LEN
        THEN SubSeq(trimmed, 1, FALLBACK_LEN) \o ELLIPSIS
        ELSE trimmed

\* a chunk-and-merge that makes its merge call whatever the chunk calls gave
chunk_and_merge_always_merges(llm, text, chunk_prompt, merge_prompt, done) ==
    Bind(chunk_text(text, CHUNK_SIZE, CHUNK_OVERLAP), LAMBDA chunks :
    Bind(SelectSeq([i \in 1..Len(chunks) |-> Strip(safe_call(llm, done + i))], Truthy),
         LAMBDA summaries :
    LET n == Len(chunks)
        chunk_calls == AsSeq([i \in 1..n |-> [prompt |-> chunk_prompt, arg |-> chunks[i]]])
        merge_call == [prompt |-> merge_prompt, arg |-> Join(summaries, << Newline >>)]
        merged == safe_call(llm, done + n + 1)
    IN  IF n = 0 THEN [text |-> << >>, calls |-> << >>]
        ELSE [text |-> Strip(merged), calls |-> chunk_calls \o << merge_call >>]))

\* _chunk_and_merge(text, chunk_prompt, merge_prompt) after `done` calls
chunk_and_merge(llm, text, chunk_prompt, merge_prompt, done) ==
    Bind(chunk_text(text, CHUNK_SIZE, CHUNK_OVERLAP), LAMBDA chunks :
    Bind(SelectSeq([i \in 1..Len(chunks) |-> Strip(safe_call(llm, done + i))], Truthy),
         LAMBDA summaries :
    LET n == Len(chunks)
        chunk_calls == AsSeq([i \in 1..n |-> [prompt |-> chunk_prompt, arg |-> chunks[i]]])
        merge_call == [prompt |-> merge_prompt, arg |-> Join(summaries, << Newline >>)]
        merged == safe_call(llm, done + n + 1)
    IN  IF n = 0 THEN [text |-> << >>, calls |-> << >>]
        ELSE IF Len(summaries) = 0 THEN [text |-> << >>, calls |-> chunk_calls]
        ELSE [text |-> Strip(merged), calls |-> chunk_calls \o << merge_call >>]))

\* summarize_email(text) after `done` calls
summarize_email(llm, text, done) ==
    IF ~Truthy(text) THEN [text |-> << >>, calls |-> << >>]
    ELSE IF ~llm.configured THEN [text |-> fallback(text), calls |-> << >>]
    ELSE Bind(chunk_and_merge(llm, text, "EMAIL_CHUNK", "EMAIL_MERGE", done), LAMBDA base :
         IF ~Truthy(base.text) THEN [text |-> fallback(text), calls |-> base.calls]
         ELSE Bind(safe_call(llm, done + Len(base.calls) + 1), LAMBDA final :
              [text |-> IF Truthy(final) THEN Strip(final) ELSE fallback(text),
               calls |-> base.calls \o << [prompt |-> "FINAL_PROMPTS", arg |-> base.text] >>]))

\* the chunk prompt summarize_attachment picks for a kind
attachment_chunk_prompt(kind) ==
    CASE kind = "PDF" -> "ATTACHMENT_CHUNK_PDF"
      [] kind = "EXCEL" -> "ATTACHMENT_CHUNK_EXCEL"
      [] kind = "CONTRACT" -> "ATTACHMENT_CHUNK_CONTRACT"
      [] OTHER -> "ATTACHMENT_CHUNK_GENERIC"

\* summarize_attachment(text, kind) after `done` calls
summarize_attachment(llm, text, kind, done) ==
    IF ~Truthy(text) THEN [text |-> << >>, calls |-> << >>]
    ELSE IF ~llm.configured THEN [text |-> fallback(text), calls |-> << >>]
    ELSE Bind(chunk_and_merge(llm, text, attachment_chunk_prompt(kind),
                              "ATTACHMENT_MERGE", done), LAMBDA merged :
         [text |-> IF Truthy(merged.text) THEN merged.text ELSE fallback(text),
          calls |-> merged.calls])

(***************************************************************************)
(* pipeline/processor.py                                                   *)
(***************************************************************************)

\* 'Без темы'
DEFAULT_SUBJECT == <<1041, 1077, 1079, 32, 1090, 1077, 1084, 1099>>

\* 'Вложение'
DEFAULT_FILENAME == <<1042, 1083, 1086, 1078, 1077, 1085, 1080, 1077>>

\* 'Документ. Текст не извлечён.'
NO_ATTACHMENT_TEXT ==
    <<1044, 1086, 1082, 1091, 1084, 1077, 1085, 1090, 46, 32, 1058, 1077, 1082, 1089, 1090, 32,
      1085, 1077, 32, 1080, 1079, 1074, 1083, 1077, 1095, 1105, 1085, 46>>

\* 'Служебное письмо. Краткое содержание недоступно.'
SERVICE_MESSAGE ==
    <<1057, 1083, 1091, 1078, 1077, 1073, 1085, 1086, 1077, 32, 1087, 1080, 1089, 1100, 1084, 1086,
      46, 32, 1050, 1088, 1072, 1090, 1082, 1086, 1077, 32, 1089, 1086, 1076, 1077, 1088, 1078,
      1072, 1085, 1080, 1077, 32, 1085, 1077, 1076, 1086, 1089, 1090, 1091, 1087, 1085, 1086,
      46>>

\* 'Содержание письма отсутствует.'
NO_CONTENT ==
    <<1057, 1086, 1076, 1077, 1088, 1078, 1072, 1085, 1080, 1077, 32, 1087, 1080, 1089, 1100, 1084,
      1072, 32, 1086, 1090, 1089, 1091, 1090, 1089, 1090, 1074, 1091, 1077, 1090, 46>>

\* greetings
GREETINGS ==
    { <<104, 101, 108, 108, 111>>,  \* 'hello'
      <<104, 105>>,  \* 'hi'
      <<1076, 1086, 1073, 1088, 1099, 1081, 32, 1076, 1077, 1085, 1100>>,  \* 'добрый день'
      <<1079, 1076, 1088, 1072, 1074, 1089, 1090, 1074, 1091, 1081, 1090, 1077>>,  \* 'здравствуйте'
      <<1087, 1088, 1080, 1074, 1077, 1090>>,  \* 'привет'
      <<1091, 1074, 1072, 1078, 1072, 1077, 1084, 1099, 1081>>,  \* 'уважаемый'
      <<100, 101, 97, 114>> }  \* 'dear'

\* signatures
SIGNATURES ==
    { <<1089, 32, 1091, 1074, 1072, 1078, 1077, 1085, 1080, 1077, 1084>>,  \* 'с уважением'
      <<98, 101, 115, 116, 32, 114, 101, 103, 97, 114, 100, 115>>,  \* 'best regards'
      <<114, 101, 103, 97, 114, 100, 115>>,  \* 'regards'
      <<99, 104, 101, 101, 114, 115>>,  \* 'cheers'
      <<116, 104, 97, 110, 107, 115>>,  \* 'thanks'
      <<116, 104, 97, 110, 107, 32, 121, 111, 117>> }  \* 'thank you'

\* limits of _build
SENDER_MAX == 200
SUBJECT_MAX == 300
BODY_MAX == 6000
SUMMARY_MAX == 1200
ATTACHMENT_TEXT_MAX == 4000
ATTACHMENT_FALLBACK_LIMIT == 600
RESULT_MAX == 3500

\* defaults of _is_meaningful and _fallback_summary
MEANINGFUL_MIN == 15
FALLBACK_LIMIT == 700
FALLBACK_SLACK == 200
SENTENCE_MIN_WORDS == 3
FALLBACK_SENTENCES == 3
EXCERPT_MIN == 300
EXCERPT_MAX == 500

\* a number as decimal digits, zero-padded to the width
Digits(n, width) == [k \in 1..width |-> 48 + ((n \div (10 ^ (width - k))) % 10)]

\* InboundMessage(subject, body, sender, received_at, attachments)
InboundMessage(subject, body, sender, received_at, attachments) ==
    [subject |-> subject, body |-> body, sender |-> sender, received_at |-> received_at,
     attachments |-> attachments]

\* Attachment(filename, text)
Attachment(filename, text) == [filename |-> filename, text |-> text]

\* no datetime
NoDate == [some |-> FALSE, hour |-> 0, minute |-> 0, day |-> 0, month |-> 0, year |-> 0]

\* datetime(year, month, day, hour, minute)
DateTime(year, month, day, hour, minute) ==
    [some |-> TRUE, hour |-> hour, minute |-> minute, day |-> day, month |-> month,
     year |-> year]

\* InboundMessage("", ""): the message with nothing in it
NoMessage == InboundMessage(<< >>, << >>, << >>, NoDate, << >>)

\* _format_timestamp(received_at), with the value datetime.now() yields
format_timestamp(received_at, clock) ==
    LET dt == IF received_at.some THEN received_at ELSE clock
    IN  Digits(dt.hour, 2) \o << 58 >> \o Digits(dt.minute, 2) \o << Space >> \o
        Digits(dt.day, 2) \o << 46 >> \o Digits(dt.month, 2) \o << 46 >> \o Digits(dt.year, 4)

\* _detect_attachment_kind(filename)
detect_attachment_kind(filename) ==
    LET lower == Lower(filename)
    IN  IF ~Truthy(filename) THEN "PDF"
        ELSE IF EndsWith(lower, <<46, 120, 108, 115>>) \/ EndsWith(lower, <<46, 120, 108, 115, 120>>)
        THEN "EXCEL"
        ELSE IF EndsWith(lower, <<46, 100, 111, 99>>) \/ EndsWith(lower, <<46, 100, 111, 99, 120>>)
        THEN "CONTRACT"
        ELSE IF EndsWith(lower, <<46, 112, 100, 102>>) THEN "PDF"
        ELSE "GENERIC"

\* _is_meaningful(text)
is_meaningful(text) == Truthy(text) /\ Truthy(Strip(text)) /\ Len(Strip(text)) >= MEANINGFUL_MIN

\* _strip_greetings_and_signatures(text)
strip_greetings_and_signatures(text) ==
    LET IsGreeting(line) ==
            Bind(Lower(Strip(line)), LAMBDA lower :
            Truthy(lower) /\ \E g \in GREETINGS : StartsWith(lower, g))
        IsSignature(line) ==
            Bind(Lower(Strip(line)), LAMBDA lower :
            Truthy(lower) /\ \E sig \in SIGNATURES : StartsWith(lower, sig))
        \* the first line that is no greeting
        First(lines) == IF \E k \in 1..Len(lines) : ~IsGreeting(lines[k])
                        THEN CHOOSE k \in 1..Len(lines) :
                                /\ ~IsGreeting(lines[k])
                                /\ \A j \in 1..(k - 1) : IsGreeting(lines[j])
                        ELSE Len(lines) + 1
    IN  Bind(Split(text, Newline), LAMBDA lines :
        Bind(Slice(lines, First(lines), Len(lines)), LAMBDA filtered_start :
        Bind(SelectSeq(filtered_start, LAMBDA line : ~IsSignature(line)), LAMBDA filtered_end :
        Strip(Join(filtered_end, << Newline >>)))))

\* [.!?]
IsSentenceEnd(c) == c \in {46, 33, 63}

\* re.split(r"(?<=[.!?])\s+", s): the text is cut at every run of whitespace
\* that follows a sentence end
split_sentences(s) ==
    Bind(SelectSeq(Indices(s),
                   LAMBDA i : IsSpace(s[i]) /\ i > 1 /\ IsSentenceEnd(s[i - 1])), LAMBDA cuts :
    AsSeq([k \in 1..(Len(cuts) + 1) |->
              Slice(s,
                    IF k = 1 THEN 1 ELSE RunEnd(s, cuts[k - 1], IsSpace) + 1,
                    IF k = Len(cuts) + 1 THEN Len(s) ELSE cuts[k] - 1)]))

\* len(s.split())
WordCount(s) ==
    Cardinality({ i \in 1..Len(s) : ~IsSpace(s[i]) /\ (i = 1 \/ IsSpace(s[i - 1])) })

\* _fallback_summary(text, limit)
fallback_summary(text, limit) ==
    LET \* the sentences the loop collects: it stops at the first that fills
        \* the limit, and the first three of them are joined
        Summary(sentences) ==
            LET Joined(k) == Join(SubSeq(sentences, 1, k), << Space >>)
                collected == IF \E k \in 1..Len(sentences) : Len(Joined(k)) >= limit
                             THEN CHOOSE k \in 1..Len(sentences) :
                                     /\ Len(Joined(k)) >= limit
                                     /\ \A j \in 1..(k - 1) : Len(Joined(j)) < limit
                             ELSE Len(sentences)
            IN  Bind(Joined(IF collected < FALLBACK_SENTENCES THEN collected
                            ELSE FALLBACK_SENTENCES), LAMBDA summary_ :
                IF Len(summary_) > limit
                THEN SubSeq(summary_, 1, limit - 3) \o ELLIPSIS
                ELSE summary_)
        width == IF limit < EXCERPT_MAX
                 THEN (IF limit > EXCERPT_MIN THEN limit ELSE EXCERPT_MIN)
                 ELSE EXCERPT_MAX
        Excerpt(working) ==
            Bind(SubSeq(working, 1, IF Len(working) < width THEN Len(working) ELSE width),
                 LAMBDA truncated :
            IF Len(working) > Len(truncated)
            THEN RStripBy(truncated, IsSpace) \o ELLIPSIS
            ELSE truncated)
    IN  Bind(sanitize_text(text, limit + FALLBACK_SLACK), LAMBDA sanitized :
        IF ~Truthy(sanitized) THEN NO_CONTENT
        ELSE Bind(strip_greetings_and_signatures(sanitized), LAMBDA stripped :
             Bind(IF Truthy(stripped) THEN stripped ELSE sanitized, LAMBDA working :
             Bind(SelectSeq(MapSeq(split_sentences(working), Strip),
                            LAMBDA sentence : WordCount(sentence) >= SENTENCE_MIN_WORDS),
                  LAMBDA sentences :
             IF Len(sentences) > 0 THEN Summary(sentences) ELSE Excerpt(working)))))

\* the summary of the body: summarize_email, sanitized, or the local excerpt
body_block(llm, body_clean) ==
    Bind(summarize_email(llm, body_clean, 0), LAMBDA raw :
    Bind(sanitize_text(raw.text, SUMMARY_MAX), LAMBDA body_summary :
    [text |-> IF is_meaningful(body_summary) THEN body_summary
              ELSE fallback_summary(body_clean, FALLBACK_LIMIT),
     calls |-> raw.calls]))

\* one pass of the attachment loop of _build, after `done` calls
attachment_block(llm, att, done) ==
    LET Block(summary_, calls) ==
            [filename |-> IF Truthy(att.filename) THEN att.filename ELSE DEFAULT_FILENAME,
             block |-> IF Truthy(summary_) THEN summary_ ELSE NO_ATTACHMENT_TEXT,
             calls |-> calls]
    IN  Bind(sanitize_text(IF att.text.some THEN att.text.text ELSE << >>,
                           ATTACHMENT_TEXT_MAX), LAMBDA att_text :
        IF ~Truthy(att_text) THEN Block(<< >>, << >>)
        ELSE Bind(summarize_attachment(llm, att_text, detect_attachment_kind(att.filename),
                                       done), LAMBDA raw :
             Bind(sanitize_text(raw.text, SUMMARY_MAX), LAMBDA sanitized :
             Bind(IF is_meaningful(sanitized) THEN sanitized
                  ELSE fallback_summary(att_text, ATTACHMENT_FALLBACK_LIMIT), LAMBDA summary_ :
             Block(summary_, raw.calls)))))

\* the attachment loop of _build after `done` calls: the blocks in order
RECURSIVE attachment_blocks(_, _, _)
attachment_blocks(llm, attachments, done) ==
    IF Len(attachments) = 0 THEN << >>
    ELSE Bind(attachment_block(llm, Head(attachments), done), LAMBDA head :
         << head >> \o attachment_blocks(llm, Tail(attachments), done + Len(head.calls)))

\* the three lines a block adds to the output
block_lines(block) == << << >>, block.filename, block.block >>

\* the concatenation of a list of lists
RECURSIVE Flatten(_)
Flatten(lists) == IF Len(lists) = 0 THEN << >> ELSE Head(lists) \o Flatten(Tail(lists))

\* the header of _build: timestamp, sender and subject lines
header_lines(account, msg, clock) ==
    LET sender == IF Truthy(Strip(msg.sender)) THEN Strip(msg.sender) ELSE account
        subject == Strip(IF Truthy(msg.subject) THEN msg.subject ELSE DEFAULT_SUBJECT)
    IN  << format_timestamp(msg.received_at, clock),
           sanitize_text(sender, SENDER_MAX),
           sanitize_text(subject, SUBJECT_MAX) >>

\* the text _build assembles before the length cap
assemble(account, msg, llm, clock) ==
    Bind(sanitize_text(clean_email_body(msg.body), BODY_MAX), LAMBDA body_clean :
    Bind(body_block(llm, body_clean), LAMBDA body :
    Bind(attachment_blocks(llm, msg.attachments, Len(body.calls)), LAMBDA blocks :
    Bind(header_lines(account, msg, clock) \o << << >> >> \o
         (IF Truthy(body.text) THEN << body.text >> ELSE << >>) \o
         Flatten(MapSeq(blocks, block_lines)), LAMBDA lines :
    Bind(SelectSeq(SubSeq(lines, 4, Len(lines)), LAMBDA ln : Truthy(Strip(ln))),
         LAMBDA semantic_lines :
    Bind(IF Len(semantic_lines) < 1
         THEN lines \o << << >>, SERVICE_MESSAGE >>
         ELSE lines, LAMBDA all_lines :
    [text |-> Strip(Join(all_lines, << Newline >>)),
     calls |-> body.calls \o Flatten([k \in 1..Len(blocks) |-> blocks[k].calls])]))))))

\* a cap that cuts at the limit and then appends the marker
cap_result_then_marker(result) ==
    IF Len(result) > RESULT_MAX
    THEN SubSeq(result, 1, RESULT_MAX) \o ELLIPSIS
    ELSE result

\* the length cap of _build
cap_result(result) ==
    IF Len(result) > RESULT_MAX
    THEN SubSeq(result, 1, RESULT_MAX - 3) \o ELLIPSIS
    ELSE result

\* _build(account_login, message): its result, with the text it assembled
\* and the calls it made
build(account, msg, llm, clock) ==
    Bind(assemble(account, msg, llm, clock), LAMBDA built :
    [result |-> cap_result(built.text), assembled |-> built.text, calls |-> built.calls])

\* process(account_login, message): _build raises nothing on str fields, so
\* the except branch that returns None is never taken
process(account, msg, llm, clock) ==
    Bind(build(account, msg, llm, clock), LAMBDA built :
    [returned |-> Some(built.result), assembled |-> built.assembled, calls |-> built.calls])

(***************************************************************************)
(* bot_core/action_engine.py and bot_core/message_processor.py: the text   *)
(* of a message and the signals the regex scanner finds in it              *)
(***************************************************************************)

\* _collect_text(message): subject, body and the attachment texts, the
\* empty ones left out
collect_text(msg) ==
    LET texts == MapSeq(msg.attachments, LAMBDA att : att.text.text)
    IN  Join(SelectSeq(<< msg.subject, msg.body >> \o texts, Truthy), << Newline >>)

\* _DOC_RE: the forms of its marker
DOC_MARKERS ==
    { <<8470>>,  \* '№'
      <<110, 111>>,  \* 'no'
      <<110, 111, 46>>,  \* 'no.'
      <<110, 117, 109>>,  \* 'num'
      <<110, 117, 109, 98, 101, 114>> }  \* 'number'

\* _DOC_RE: the least length of a document number
DOC_NUMBER_MIN == 3

\* [A-Za-z0-9_-]
IsDocChar(c) == c \in 65..90 \/ c \in 97..122 \/ c \in 48..57 \/ c \in {95, 45}

\* _DOC_RE.search(text) finds a match: a marker, any whitespace and colons,
\* then a document number
HasDocNumber(text) ==
    LET lower == Lower(text)
    IN  \E marker \in DOC_MARKERS :
            \E i \in 1..(Len(text) - Len(marker) + 1) :
                /\ MatchAt(lower, marker, i)
                /\ LET from == RunEnd(text, i + Len(marker),
                                       LAMBDA c : IsSpace(c) \/ c = 58) + 1
                   IN  /\ from + DOC_NUMBER_MIN - 1 <= Len(text)
                       /\ \A k \in 0..(DOC_NUMBER_MIN - 1) : IsDocChar(text[from + k])

\* _ACTION_RE
ACTION_WORDS ==
    { <<1086, 1087, 1083, 1072, 1090, 1080, 1090, 1100>>,  \* 'оплатить'
      <<1086, 1087, 1083, 1072, 1090, 1072>>,  \* 'оплата'
      <<112, 97, 121>>,  \* 'pay'
      <<112, 97, 121, 109, 101, 110, 116>>,  \* 'payment'
      <<97, 112, 112, 114, 111, 118, 101>>,  \* 'approve'
      <<1091, 1090, 1074, 1077, 1088, 1076, 1080, 1090, 1100>>,  \* 'утвердить'
      <<1087, 1086, 1076, 1087, 1080, 1089, 1072, 1090, 1100>> }  \* 'подписать'

\* _URGENT_RE
URGENT_WORDS ==
    { <<1089, 1088, 1086, 1095, 1085, 1086>>,  \* 'срочно'
      <<117, 114, 103, 101, 110, 116>>,  \* 'urgent'
      <<97, 115, 97, 112>>,  \* 'asap'
      <<1085, 1077, 1084, 1077, 1076, 1083, 1077, 1085, 1085, 1086>> }  \* 'немедленно'

\* analyze_action(text): the fields for which a regex finds a match
action_signals(text) ==
    LET lower == Lower(text)
    IN  (IF \E i \in 1..Len(text) : IsDigit(text[i]) THEN { "amount" } ELSE {}) \cup
        (IF FindDates(text) # {} THEN { "date" } ELSE {}) \cup
        (IF HasDocNumber(text) THEN { "doc_number" } ELSE {}) \cup
        (IF \E w \in ACTION_WORDS : Contains(lower, w) THEN { "action" } ELSE {}) \cup
        (IF \E w \in URGENT_WORDS : Contains(lower, w) THEN { "urgency" } ELSE {})

(***************************************************************************)
(* state_manager.py                                                        *)
(*                                                                         *)
(* Time is a number of seconds; a date is the number of its day.  A file   *)
(* is absent or holds what has been written to it: the JSON document of    *)
(* save is written as its three top-level members, one after another, and  *)
(* a file that holds fewer of them is not a JSON document.                 *)
(***************************************************************************)

\* seconds in a day: strftime("%Y-%m-%d") changes once per day
DAY == 86400

\* timedelta(seconds=60): the age of the last save that forces a new one
SAVE_INTERVAL == 60

\* datetime.now().strftime("%Y-%m-%d")
Today(t) == t \div DAY

\* Optional[str] holding datetime.isoformat()
NoTime == [some |-> FALSE, at |-> 0]
At(t) == [some |-> TRUE, at |-> t]

\* AccountState()
DefaultAccountState ==
    [last_uid |-> 0, last_check_time |-> NoTime, imap_status |-> "unknown", last_error |-> ""]

\* LLMState() made at time t
DefaultLLMState(t) ==
    [tokens_used_today |-> 0, date |-> Today(t), unavailable |-> FALSE, last_error |-> ""]

\* MetaState() made at time t
DefaultMetaState(t) == [version |-> "v26", last_save |-> t]

\* BotState() made at time t
BotState(t) ==
    [accounts |-> [login \in {} |-> DefaultAccountState],
     llm |-> DefaultLLMState(t),
     meta |-> DefaultMetaState(t)]

\* a file of the disk
Absent == [exists |-> FALSE, content |-> << >>]
File(content) == [exists |-> TRUE, content |-> content]

\* a dataclass built from keyword arguments: the fields given, the defaults
\* for the others
FromDict(data, defaults) ==
    [f \in DOMAIN defaults |-> IF f \in DOMAIN data THEN data[f] ELSE defaults[f]]

\* the members of the JSON document save writes at time t
Payload(state, t) ==
    << [key |-> "accounts", value |-> state.accounts],
       [key |-> "llm", value |-> state.llm],
       [key |-> "meta", value |-> [state.meta EXCEPT !.last_save = t]] >>

\* json.load succeeds on the content
IsJSON(content) == Len(content) = 3

\* a JSON value that is no object: a list, a number, null
NotAnObject == [not_an_object |-> TRUE]
IsObject(value) == "not_an_object" \notin DOMAIN value

\* the keyword arguments are accepted: a mapping of fields of the dataclass
Accepts(data, defaults) == DOMAIN data \subseteq DOMAIN defaults

\* json.load(fh) of a document of three members
json_load(content) ==
    [k \in { content[i].key : i \in 1..3 } |->
        (CHOOSE member \in { content[i] : i \in 1..3 } : member.key = k).value]

\* raw.get(key, {})
raw_get(raw, key) == IF key \in DOMAIN raw THEN raw[key] ELSE << >>

\* _load_state(): an exception leaves it, of .items() or of a dataclass
\* that is given what it does not accept
load_state_raises(file) ==
    /\ file.exists
    /\ IsJSON(file.content)
    /\ LET raw == json_load(file.content)
       IN  \/ ~IsObject(raw_get(raw, "accounts"))
           \/ \E login \in DOMAIN raw_get(raw, "accounts") :
                 ~Accepts(raw_get(raw, "accounts")[login], DefaultAccountState)
           \/ ~Accepts(raw_get(raw, "llm"), DefaultLLMState(0))
           \/ ~Accepts(raw_get(raw, "meta"), DefaultMetaState(0))

\* _load_state() at time t, when no exception leaves it
load_state(file, t) ==
    IF ~file.exists THEN BotState(t)
    ELSE IF ~IsJSON(file.content) THEN BotState(t)
    ELSE LET raw == json_load(file.content)
         IN  [accounts |-> [login \in DOMAIN raw_get(raw, "accounts") |->
                               FromDict(raw_get(raw, "accounts")[login], DefaultAccountState)],
              llm |-> FromDict(raw_get(raw, "llm"), DefaultLLMState(t)),
              meta |-> FromDict(raw_get(raw, "meta"), DefaultMetaState(t))]

\* no StateManager: the process is not running
NoManager == [alive |-> FALSE, state |-> BotState(0), dirty |-> FALSE, last_save_ts |-> 0]

\* StateManager(state_file) made at time t
StateManager(file, t) ==
    [alive |-> TRUE, state |-> load_state(file, t), dirty |-> FALSE, last_save_ts |-> t]

\* _mark_dirty()
mark_dirty(m) == [m EXCEPT !.dirty = TRUE]

\* self._state.accounts.setdefault(login, AccountState())
setdefault(state_accounts, login) ==
    IF login \in DOMAIN state_accounts THEN state_accounts
    ELSE [l \in DOMAIN state_accounts \cup { login } |->
             IF l = login THEN DefaultAccountState ELSE state_accounts[l]]

\* get_last_uid(login)
get_last_uid(m, login) ==
    IF login \in DOMAIN m.state.accounts THEN m.state.accounts[login].last_uid
    ELSE DefaultAccountState.last_uid

\* update_last_uid(login, uid)
update_last_uid(m, login, uid) ==
    mark_dirty([m EXCEPT !.state.accounts =
                   [setdefault(@, login) EXCEPT ![login].last_uid = uid]])

\* update_check_time(login, timestamp)
update_check_time(m, login, t) ==
    mark_dirty([m EXCEPT !.state.accounts =
                   [setdefault(@, login) EXCEPT ![login].last_check_time = At(t)]])

\* get_last_check_time(login): None, or the time the stored text parses to
get_last_check_time(m, login) ==
    IF login \in DOMAIN m.state.accounts THEN m.state.accounts[login].last_check_time
    ELSE DefaultAccountState.last_check_time

\* set_imap_status(login, status, error)
set_imap_status(m, login, status, error) ==
    mark_dirty([m EXCEPT !.state.accounts =
                   [setdefault(@, login) EXCEPT ![login].imap_status = status,
                                                ![login].last_error = error]])

\* add_tokens(count) at time t
add_tokens(m, count, t) ==
    LET llm == m.state.llm
        used == IF llm.date # Today(t) THEN 0 ELSE llm.tokens_used_today
    IN  mark_dirty([m EXCEPT !.state.llm.tokens_used_today = used + count,
                             !.state.llm.date = Today(t)])

\* set_llm_unavailable(unavailable, error)
set_llm_unavailable(m, unavailable, error) ==
    mark_dirty([m EXCEPT !.state.llm.unavailable = unavailable,
                         !.state.llm.last_error = error])

\* a save that writes only when it is forced
should_save_when_forced(m, force, t) == force

\* save: should_save at time t
should_save(m, force, t) == force \/ m.dirty \/ (t - m.last_save_ts) > SAVE_INTERVAL

\* save: the manager once the temporary file has replaced the state file
saved(m, t) == [m EXCEPT !.dirty = FALSE, !.last_save_ts = t]

\* save(force) at time t, all its steps taken: the manager and the state file
save(m, file, force, t) ==
    IF should_save(m, force, t)
    THEN [manager |-> saved(m, t), state_file |-> File(Payload(m.state, t))]
    ELSE [manager |-> m, state_file |-> file]

(***************************************************************************)
(* Inputs of the validators: a source text and a candidate made of         *)
(* '|'-delimited segments                                                  *)
(***************************************************************************)

\* 'Просим оплатить счёт №123 на сумму 150000 рублей до 20.12.2024'
SRC_INVOICE ==
    <<1055, 1088, 1086, 1089, 1080, 1084, 32, 1086, 1087, 1083, 1072, 1090, 1080, 1090, 1100, 32,
      1089, 1095, 1105, 1090, 32, 8470, 49, 50, 51, 32, 1085, 1072, 32, 1089, 1091, 1084, 1084,
      1091, 32, 49, 53, 48, 48, 48, 48, 32, 1088, 1091, 1073, 1083, 1077, 1081, 32, 1076, 1086,
      32, 50, 48, 46, 49, 50, 46, 50, 48, 50, 52>>

\* 'Не оплачивать счёт'
SRC_NEGATED ==
    <<1053, 1077, 32, 1086, 1087, 1083, 1072, 1095, 1080, 1074, 1072, 1090, 1100, 32, 1089, 1095,
      1105, 1090>>

\* 'Срочно оплатить'
SRC_URGENT ==
    <<1057, 1088, 1086, 1095, 1085, 1086, 32, 1086, 1087, 1083, 1072, 1090, 1080, 1090, 1100>>

\* 'A: 100 C: test'
SRC_PLAIN == <<65, 58, 32, 49, 48, 48, 32, 67, 58, 32, 116, 101, 115, 116>>

\* 'не zzzzzzzzzzzzzzzzzzzzzzzzzzzzzzzzzzzzzzzzzzzzzz оплатить срочно'
SRC_MARKER_NEAR ==
    <<1085, 1077, 32, 122, 122, 122, 122, 122, 122, 122, 122, 122, 122, 122, 122, 122, 122, 122,
      122, 122, 122, 122, 122, 122, 122, 122, 122, 122, 122, 122, 122, 122, 122, 122, 122, 122,
      122, 122, 122, 122, 122, 122, 122, 122, 122, 122, 122, 122, 122, 32, 1086, 1087, 1083,
      1072, 1090, 1080, 1090, 1100, 32, 1089, 1088, 1086, 1095, 1085, 1086>>

\* 'не zzzzzzzzzzzzzzzzzzzzzzzzzzzzzzzzzzzzzzzzzzzzzzz оплатить срочно'
SRC_MARKER_FAR ==
    <<1085, 1077, 32, 122, 122, 122, 122, 122, 122, 122, 122, 122, 122, 122, 122, 122, 122, 122,
      122, 122, 122, 122, 122, 122, 122, 122, 122, 122, 122, 122, 122, 122, 122, 122, 122, 122,
      122, 122, 122, 122, 122, 122, 122, 122, 122, 122, 122, 122, 122, 122, 32, 1086, 1087,
      1083, 1072, 1090, 1080, 1090, 1100, 32, 1089, 1088, 1086, 1095, 1085, 1086>>

\* 'СУММА: 150000'
SEG_AMOUNT == <<1057, 1059, 1052, 1052, 1040, 58, 32, 49, 53, 48, 48, 48, 48>>

\* 'СРОК: 20.12.2024'
SEG_DUE == <<1057, 1056, 1054, 1050, 58, 32, 50, 48, 46, 49, 50, 46, 50, 48, 50, 52>>

\* 'ДОКУМЕНТ: №123'
SEG_DOC == <<1044, 1054, 1050, 1059, 1052, 1045, 1053, 1058, 58, 32, 8470, 49, 50, 51>>

\* 'СУММА: 999000'
SEG_BAD_AMOUNT == <<1057, 1059, 1052, 1052, 1040, 58, 32, 57, 57, 57, 48, 48, 48>>

\* 'оплатить счёт на сумму 50000 рублей'
SEG_PART_AMOUNT ==
    <<1086, 1087, 1083, 1072, 1090, 1080, 1090, 1100, 32, 1089, 1095, 1105, 1090, 32, 1085, 1072,
      32, 1089, 1091, 1084, 1084, 1091, 32, 53, 48, 48, 48, 48, 32, 1088, 1091, 1073, 1083,
      1077, 1081>>

\* 'СРОК: 20/12/2024'
SEG_DUE_SLASH == <<1057, 1056, 1054, 1050, 58, 32, 50, 48, 47, 49, 50, 47, 50, 48, 50, 52>>

\* 'СРОК: 01.01.2099'
SEG_BAD_DUE == <<1057, 1056, 1054, 1050, 58, 32, 48, 49, 46, 48, 49, 46, 50, 48, 57, 57>>

\* 'ИТОГО: none 777'
SEG_NONE_NUMBER ==
    <<1048, 1058, 1054, 1043, 1054, 58, 32, 110, 111, 110, 101, 32, 55, 55, 55>>

\* 'оплатить счёт №123 на сумму 150000 рублей до 20.12.2024'
SEG_ECHO ==
    <<1086, 1087, 1083, 1072, 1090, 1080, 1090, 1100, 32, 1089, 1095, 1105, 1090, 32, 8470, 49, 50,
      51, 32, 1085, 1072, 32, 1089, 1091, 1084, 1084, 1091, 32, 49, 53, 48, 48, 48, 48, 32,
      1088, 1091, 1073, 1083, 1077, 1081, 32, 1076, 1086, 32, 50, 48, 46, 49, 50, 46, 50, 48,
      50, 52>>

\* 'B: NONE'
SEG_B_NONE == <<66, 58, 32, 78, 79, 78, 69>>

\* 'A: 100'
SEG_A == <<65, 58, 32, 49, 48, 48>>

\* 'C: test'
SEG_C == <<67, 58, 32, 116, 101, 115, 116>>

\* 'NONE'
SEG_NONE == <<78, 79, 78, 69>>

\* ''
SEG_EMPTY == << >>

\* 'ДЕЙСТВИЕ: оплачивать'
SEG_ACT_PAY_IMPF ==
    <<1044, 1045, 1049, 1057, 1058, 1042, 1048, 1045, 58, 32, 1086, 1087, 1083, 1072, 1095, 1080,
      1074, 1072, 1090, 1100>>

\* 'ДЕЙСТВИЕ: оплатить'
SEG_ACT_PAY ==
    <<1044, 1045, 1049, 1057, 1058, 1042, 1048, 1045, 58, 32, 1086, 1087, 1083, 1072, 1090, 1080,
      1090, 1100>>

\* 'действие: оплачивать'
SEG_ACT_LOWER ==
    <<1076, 1077, 1081, 1089, 1090, 1074, 1080, 1077, 58, 32, 1086, 1087, 1083, 1072, 1095, 1080,
      1074, 1072, 1090, 1100>>

\* 'Не оплачивать счёт'
SEG_NEGATED_TEXT ==
    <<1053, 1077, 32, 1086, 1087, 1083, 1072, 1095, 1080, 1074, 1072, 1090, 1100, 32, 1089, 1095,
      1105, 1090>>

\* 'счёт'
SEG_BILL == <<1089, 1095, 1105, 1090>>

\* 'Срочно оплатить'
SEG_URGENT_TEXT ==
    <<1057, 1088, 1086, 1095, 1085, 1086, 32, 1086, 1087, 1083, 1072, 1090, 1080, 1090, 1100>>

\* 'не срочно оплатить'
SEG_NOT_URGENT ==
    <<1085, 1077, 32, 1089, 1088, 1086, 1095, 1085, 1086, 32, 1086, 1087, 1083, 1072, 1090, 1080,
      1090, 1100>>

\* the most segments of a candidate
MaxSegs == 3

\* how the segments of a candidate are joined: " | " or "|"
Separators == { SEP_JOIN, << Pipe >> }

\* a source text with the segments a summary of it is made of, and how they
\* are joined
Scenarios ==
    { [source |-> SRC_INVOICE,
       segs |-> { SEG_AMOUNT, SEG_DUE, SEG_DOC, SEG_BAD_AMOUNT, SEG_PART_AMOUNT,
                  SEG_DUE_SLASH, SEG_BAD_DUE, SEG_NONE_NUMBER, SEG_ECHO },
       seps |-> { SEP_JOIN }],
      [source |-> SRC_NEGATED,
       segs |-> { SEG_ACT_PAY_IMPF, SEG_ACT_LOWER, SEG_NEGATED_TEXT, SEG_BILL, SEG_B_NONE },
       seps |-> Separators],
      [source |-> SRC_URGENT,
       segs |-> { SEG_ACT_PAY, SEG_ACT_PAY_IMPF, SEG_URGENT_TEXT },
       seps |-> Separators],
      [source |-> SRC_PLAIN,
       segs |-> { SEG_A, SEG_B_NONE, SEG_C, SEG_NONE, SEG_EMPTY },
       seps |-> Separators],
      [source |-> SRC_MARKER_NEAR, segs |-> { SEG_ACT_PAY, SEG_NOT_URGENT },
       seps |-> Separators],
      [source |-> SRC_MARKER_FAR, segs |-> { SEG_ACT_PAY, SEG_NOT_URGENT },
       seps |-> Separators] }

\* the candidates of a scenario: one to MaxSegs of its segments, joined
Candidates(sc) ==
    { Join(parts, sep) :
        parts \in UNION { [1..n -> sc.segs] : n \in 1..MaxSegs }, sep \in sc.seps }

(***************************************************************************)
(* Components at rest: the values of the variables of a component that a   *)
(* specification does not exercise                                         *)
(***************************************************************************)

\* a summarizer result before any call: no text, no calls
NoSummary == [text |-> << >>, calls |-> << >>]

ValidateIdle ==
    /\ summary = << >>
    /\ original_text = << >>
    /\ validator_out = None
    /\ validation_out = None

PipelineIdle ==
    /\ account_login = << >>
    /\ message = NoMessage
    /\ llm_call = NoLLM
    /\ now = NoDate
    /\ assembled = << >>
    /\ final_text = None
    /\ llm_calls = << >>

SummarizerIdle ==
    /\ input_text = << >>
    /\ email_summary = NoSummary
    /\ attachment_summary = NoSummary

\* no call of save in progress: its statement, and its locals force, now,
\* payload, with the state file as save found it
NotSaving ==
    [step |-> "idle", force |-> FALSE, now |-> 0, payload |-> << >>, found |-> Absent]

StateIdle ==
    /\ manager = NoManager
    /\ state_file = Absent
    /\ tmp_file = Absent
    /\ wall_clock = 0
    /\ saving = NotSaving
    /\ reopened = NoManager
    /\ mutations = 0

MainIdle ==
    /\ sections = << >>
    /\ mailbox = << >>
    /\ main_pc = "off"
    /\ starts = 0
    /\ accounts = << >>
    /\ cycle = 0
    /\ account_index = 0
    /\ batch = << >>
    /\ pending = {}
    /\ failed = {}
    /\ handed = {}
    /\ rehanded = {}
    /\ ok = "unbound"

ClientIdle ==
    /\ time_time = 0
    /\ llm_lock = "free"
    /\ last_call = 0
    /\ llm_threads = << >>
    /\ request_times = << >>

\* ask was not called
NoCall == [called |-> FALSE]

AskIdle == asked = NoCall

\* chunk_text is not running
NoChunkCall == [text |-> << >>, size |-> 0, overlap |-> 0]

ChunkerIdle ==
    /\ chunk_call = NoChunkCall
    /\ chunk_start = 0
    /\ chunk_list = << >>
    /\ chunk_pc = "off"

TextIdle ==
    /\ text_in = None
    /\ text_out = None

OpenIdle == opened = "no"

\* fetch_new_messages was not called
NoFetch == [called |-> FALSE, seen |-> {}, twice |-> FALSE]

FetchIdle == fetch_call = NoFetch

ToolsIdle == ChunkerIdle /\ TextIdle /\ OpenIdle /\ FetchIdle

RuntimeIdle == StateIdle /\ MainIdle /\ ClientIdle /\ AskIdle /\ ToolsIdle

OthersIdle == SummarizerIdle /\ RuntimeIdle

(***************************************************************************)
(* The validators applied to a candidate and its source                    *)
(***************************************************************************)

InitValidate ==
    /\ pc = {}
    /\ \E sc \in Scenarios :
          /\ original_text = sc.source
          /\ summary \in Candidates(sc)
    /\ validator_out = None
    /\ validation_out = None
    /\ account_login = << >>
    /\ message = NoMessage
    /\ llm_call = NoLLM
    /\ now = NoDate
    /\ assembled = << >>
    /\ final_text = None
    /\ llm_calls = << >>
    /\ OthersIdle

\* validator.validate_summary(summary, original_text)
ValidatorValidate ==
    /\ "validator" \notin pc
    /\ validator_out' = validator_validate_summary(summary, original_text, MIN_SIMILARITY)
    /\ pc' = pc \cup {"validator"}
    /\ UNCHANGED <<summary, original_text, validation_out, pipeline_vars, other_vars>>

\* validation.validate_summary(summary, original_text)
ValidationValidate ==
    /\ "validation" \notin pc
    /\ validation_out' = validation_validate_summary(summary, original_text, MIN_SIMILARITY)
    /\ pc' = pc \cup {"validation"}
    /\ UNCHANGED <<summary, original_text, validator_out, pipeline_vars, other_vars>>

NextValidate == ValidatorValidate \/ ValidationValidate

SpecValidate == InitValidate /\ [][NextValidate]_vars

(***************************************************************************)
(* Inputs of the pipeline: messages and remote collaborators               *)
(***************************************************************************)

\* unit * n
Repeat(unit, n) == AsSeq([i \in 1..(n * Len(unit)) |-> unit[((i - 1) % Len(unit)) + 1]])

\* 'user@example.com'
ACCOUNT == <<117, 115, 101, 114, 64, 101, 120, 97, 109, 112, 108, 101, 46, 99, 111, 109>>

\* 'boss@example.com'
SENDER_BOSS == <<98, 111, 115, 115, 64, 101, 120, 97, 109, 112, 108, 101, 46, 99, 111, 109>>

\* 'Привет'
SUBJECT_HELLO == <<1055, 1088, 1080, 1074, 1077, 1090>>

\* 'Счёт №123'
SUBJECT_INVOICE == <<1057, 1095, 1105, 1090, 32, 8470, 49, 50, 51>>

\* 'Добрый день!\\nПросим оплатить счёт №123 на сумму 150000 рублей до 20.12.2024\\nС уважением,\\nИван'
BODY_INVOICE ==
    <<1044, 1086, 1073, 1088, 1099, 1081, 32, 1076, 1077, 1085, 1100, 33, 10, 1055, 1088, 1086,
      1089, 1080, 1084, 32, 1086, 1087, 1083, 1072, 1090, 1080, 1090, 1100, 32, 1089, 1095,
      1105, 1090, 32, 8470, 49, 50, 51, 32, 1085, 1072, 32, 1089, 1091, 1084, 1084, 1091, 32,
      49, 53, 48, 48, 48, 48, 32, 1088, 1091, 1073, 1083, 1077, 1081, 32, 1076, 1086, 32, 50,
      48, 46, 49, 50, 46, 50, 48, 50, 52, 10, 1057, 32, 1091, 1074, 1072, 1078, 1077, 1085,
      1080, 1077, 1084, 44, 10, 1048, 1074, 1072, 1085>>

\* 'Как дела у тебя сегодня? Давно не виделись с тобой.'
BODY_CHAT ==
    <<1050, 1072, 1082, 32, 1076, 1077, 1083, 1072, 32, 1091, 32, 1090, 1077, 1073, 1103, 32, 1089,
      1077, 1075, 1086, 1076, 1085, 1103, 63, 32, 1044, 1072, 1074, 1085, 1086, 32, 1085, 1077,
      32, 1074, 1080, 1076, 1077, 1083, 1080, 1089, 1100, 32, 1089, 32, 1090, 1086, 1073, 1086,
      1081, 46>>

\* 'Текст договора поставки оборудования. '
BODY_UNIT ==
    <<1058, 1077, 1082, 1089, 1090, 32, 1076, 1086, 1075, 1086, 1074, 1086, 1088, 1072, 32, 1087,
      1086, 1089, 1090, 1072, 1074, 1082, 1080, 32, 1086, 1073, 1086, 1088, 1091, 1076, 1086,
      1074, 1072, 1085, 1080, 1103, 46, 32>>

\* a body of more than one chunk
BODY_LONG == Repeat(BODY_UNIT, 55)

\* 'contract.docx'
FILE_CONTRACT == <<99, 111, 110, 116, 114, 97, 99, 116, 46, 100, 111, 99, 120>>

\* 'Договор поставки №77 от 01.02.2024. Сумма договора 500000 рублей.'
TEXT_CONTRACT ==
    <<1044, 1086, 1075, 1086, 1074, 1086, 1088, 32, 1087, 1086, 1089, 1090, 1072, 1074, 1082, 1080,
      32, 8470, 55, 55, 32, 1086, 1090, 32, 48, 49, 46, 48, 50, 46, 50, 48, 50, 52, 46, 32,
      1057, 1091, 1084, 1084, 1072, 32, 1076, 1086, 1075, 1086, 1074, 1086, 1088, 1072, 32, 53,
      48, 48, 48, 48, 48, 32, 1088, 1091, 1073, 1083, 1077, 1081, 46>>

\* an attachment with extracted text, and one without name and text
ATT_CONTRACT == Attachment(FILE_CONTRACT, Some(TEXT_CONTRACT))
ATT_SCAN == Attachment(<< >>, None)

\* 'Оплата по договору поставки. '
REPLY_UNIT ==
    <<1054, 1087, 1083, 1072, 1090, 1072, 32, 1087, 1086, 32, 1076, 1086, 1075, 1086, 1074, 1086,
      1088, 1091, 32, 1087, 1086, 1089, 1090, 1072, 1074, 1082, 1080, 46, 32>>

\* a reply longer than the summary limit
REPLY_LONG == Repeat(REPLY_UNIT, 45)

\* 'Сумма к оплате 999000 рублей до 01.01.2099'
REPLY_INVENTED ==
    <<1057, 1091, 1084, 1084, 1072, 32, 1082, 32, 1086, 1087, 1083, 1072, 1090, 1077, 32, 57, 57,
      57, 48, 48, 48, 32, 1088, 1091, 1073, 1083, 1077, 1081, 32, 1076, 1086, 32, 48, 49, 46,
      48, 49, 46, 50, 48, 57, 57>>

\* 'Оплатить счёт №123 на сумму 150000 рублей до 20.12.2024'
REPLY_GROUNDED ==
    <<1054, 1087, 1083, 1072, 1090, 1080, 1090, 1100, 32, 1089, 1095, 1105, 1090, 32, 8470, 49, 50,
      51, 32, 1085, 1072, 32, 1089, 1091, 1084, 1084, 1091, 32, 49, 53, 48, 48, 48, 48, 32,
      1088, 1091, 1073, 1083, 1077, 1081, 32, 1076, 1086, 32, 50, 48, 46, 49, 50, 46, 50, 48,
      50, 52>>

\* 'Оплатить счёт | NONE | срочно'
REPLY_NONE_SEGMENT ==
    <<1054, 1087, 1083, 1072, 1090, 1080, 1090, 1100, 32, 1089, 1095, 1105, 1090, 32, 124, 32, 78,
      79, 78, 69, 32, 124, 32, 1089, 1088, 1086, 1095, 1085, 1086>>

\* 'ok'
REPLY_SHORT == <<111, 107>>

\* the most attachments of a message
MaxAttachments == 2

Subjects == { << >>, SUBJECT_HELLO, SUBJECT_INVOICE }

Bodies == { << >>, BODY_INVOICE, BODY_CHAT }

\* sender and received_at: both absent, or both given
Envelopes ==
    { [sender |-> << >>, received_at |-> NoDate],
      [sender |-> SENDER_BOSS, received_at |-> DateTime(2023, 12, 31, 23, 5)] }

AttachmentLists == UNION { [1..n -> { ATT_CONTRACT, ATT_SCAN }] : n \in 0..MaxAttachments }

\* every subject with every body, envelope and list of attachments, and the
\* long body under every subject, alone and with one attachment
Messages ==
    { InboundMessage(subject, body, env.sender, env.received_at, attachments) :
        subject \in Subjects, body \in Bodies, env \in Envelopes,
        attachments \in AttachmentLists } \cup
    { InboundMessage(subject, BODY_LONG, SENDER_BOSS, NoDate, attachments) :
        subject \in Subjects, attachments \in { << >>, << ATT_CONTRACT >> } }

\* the collaborators: none, or a callable with a cycle of outcomes
Collaborators ==
    { NoLLM,
      LLM(<< Reply(REPLY_LONG) >>),
      LLM(<< Reply(REPLY_INVENTED) >>),
      LLM(<< Reply(REPLY_GROUNDED) >>),
      LLM(<< Reply(REPLY_NONE_SEGMENT) >>),
      LLM(<< Reply(REPLY_SHORT) >>),
      LLM(<< Reply(<< >>) >>),
      LLM(<< Raises >>),
      LLM(<< NotStr >>),
      LLM(<< Raises, Reply(REPLY_INVENTED) >>),
      LLM(<< Reply(REPLY_GROUNDED), Reply(<< >>) >>) }

\* the clock reading
NOW == DateTime(2024, 1, 1, 9, 30)

(***************************************************************************)
(* The pipeline applied to a message                                       *)
(***************************************************************************)

InitPipeline ==
    /\ pc = {}
    /\ account_login = ACCOUNT
    /\ message \in Messages
    /\ llm_call \in Collaborators
    /\ now = NOW
    /\ assembled = << >>
    /\ final_text = None
    /\ llm_calls = << >>
    /\ summary = << >>
    /\ original_text = << >>
    /\ validator_out = None
    /\ validation_out = None
    /\ OthersIdle

\* MessageProcessor(config, state).process(account_login, message)
PipelineProcess ==
    /\ "process" \notin pc
    /\ \E done \in { process(account_login, message, llm_call, now) } :
           /\ final_text' = done.returned
           /\ assembled' = done.assembled
           /\ llm_calls' = done.calls
    /\ pc' = pc \cup { "process" }
    /\ UNCHANGED <<account_login, message, llm_call, now, validate_vars, other_vars>>

NextPipeline == PipelineProcess

SpecPipeline == InitPipeline /\ [][NextPipeline]_vars

(***************************************************************************)
(* Properties of the validators                                            *)
(***************************************************************************)

\* the '|'-delimited segments of a text, trimmed
Segments(text) == MapSeq(Split(text, Pipe), Strip)

\* the segment contains "none", case-insensitively
ContainsNone(seg) == Contains(Lower(seg), NONE_LOWER)

\* the segments of a candidate that do not contain "none", in their order
NonNoneSegments(text) == SelectSeq(Segments(text), LAMBDA seg : ~ContainsNone(seg))

\* every digit-run of text is a whole digit-run of the source, and every date
\* token of text is, separators normalised, a date token of the source
Grounded(text, source) ==
    /\ \A run \in DigitRuns(text) : run \in DigitRuns(source)
    /\ \A d \in FindDates(text) :
          NormalizeDate(d) \in { NormalizeDate(o) : o \in FindDates(source) }

\* C2: whenever validate_summary returns a text, every digit-run and every
\* date token of that text comes from the source, in validator.py and in
\* validation.py alike.
C2_ReturnedTextGrounded ==
    /\ ("validator" \in pc /\ validator_out.some)
          => Grounded(validator_out.text, original_text)
    /\ ("validation" \in pc /\ validation_out.some)
          => Grounded(validation_out.text, original_text)

\* C3 as stated: a candidate with a digit-run that is no digit-run of the
\* source is rejected by validator.validate_summary, whichever segment the
\* number sits in.
C3_ForeignNumberRejected ==
    ("validator" \in pc /\ ~(DigitRuns(summary) \subseteq DigitRuns(original_text)))
        => ~validator_out.some

\* some segment without "none" holds a digit-run that is no digit-run of the
\* source
ForeignNumberInKeptSegment ==
    \E i \in 1..Len(NonNoneSegments(summary)) :
        ~(DigitRuns(NonNoneSegments(summary)[i]) \subseteq DigitRuns(original_text))

\* C3 amended: a candidate is rejected as a whole by validator.validate_summary
\* when a segment of it that does not contain "none" holds a digit-run that is
\* no digit-run of the source.
C3_ForeignNumberInKeptSegmentRejected ==
    ("validator" \in pc /\ ForeignNumberInKeptSegment) => ~validator_out.some

\* C3 witness: a candidate of several segments, one grounded and one with a
\* foreign number, was rejected as a whole
C3_Witness ==
    /\ "validator" \in pc
    /\ ForeignNumberInKeptSegment
    /\ \E i \in 1..Len(NonNoneSegments(summary)) :
          /\ DigitRuns(NonNoneSegments(summary)[i]) # {}
          /\ DigitRuns(NonNoneSegments(summary)[i]) \subseteq DigitRuns(original_text)
    /\ ~validator_out.some

\* the segment is 'ДЕЙСТВИЕ: <verb>'
IsActionSegment(seg) ==
    /\ StartsWith(seg, ACTION_LABEL)
    /\ LET w == FirstIndex(seg, Len(ACTION_LABEL) + 1, LAMBDA c : ~IsSpace(c))
       IN  w # 0 /\ IsWord(seg[w])

\* the verb of an action segment
ActionVerb(seg) ==
    LET w == FirstIndex(seg, Len(ACTION_LABEL) + 1, LAMBDA c : ~IsSpace(c))
    IN  SubSeq(seg, w, RunEnd(seg, w, IsWord))

\* an action segment whose verb the source negates
IsNegatedAction(seg, source) ==
    IsActionSegment(seg) /\ check_negation(source, ActionVerb(seg))

\* C4: the returned text is the candidate without its negated action
\* segments, wherever they stand, every other segment retained in order; it
\* is None when nothing else remains.
C4_NegatedActionRemoved ==
    "validator" \in pc =>
        LET expected == SelectSeq(NonNoneSegments(summary),
                                  LAMBDA seg : ~IsNegatedAction(seg, original_text))
        IN  /\ validator_out.some => Segments(validator_out.text) = expected
            /\ expected = << >> => ~validator_out.some

\* C5: validate_summary of validator.py drops every segment containing
\* "none" and keeps the others in order; a candidate that is empty, only
\* "NONE", or all of whose segments contain "none" yields None; no returned
\* text has a segment containing "none".
C5_NoneSegmentsDropped ==
    "validator" \in pc =>
        /\ validator_clean_none(summary) = Join(NonNoneSegments(summary), SEP_JOIN)
        /\ (summary = << >> \/ NonNoneSegments(summary) = << >>) => ~validator_out.some
        /\ validator_out.some =>
              /\ \A i \in 1..Len(Segments(validator_out.text)) :
                    ~ContainsNone(Segments(validator_out.text)[i])
              /\ \/ validator_out.text = Join(NonNoneSegments(summary), SEP_JOIN)
                 \/ \E i \in 1..Len(NonNoneSegments(summary)) :
                       IsNegatedAction(NonNoneSegments(summary)[i], original_text)

\* C5 witness: "A: 100 | B: NONE | C: test" was returned as "A: 100 | C: test"
C5_Witness ==
    /\ "validator" \in pc
    /\ summary = Join(<<SEG_A, SEG_B_NONE, SEG_C>>, SEP_JOIN)
    /\ validator_out = Some(Join(<<SEG_A, SEG_C>>, SEP_JOIN))

\* C6: the candidates "СУММА: 150000 | СРОК: 20.12.2024 | ДОКУМЕНТ: №123" and
\* "СУММА: 150000 | СРОК: 20.12.2024", all of whose facts are copied from the
\* source, are accepted by validator.py and by validation.py.
C6_GroundedCandidateAccepted ==
    (/\ original_text = SRC_INVOICE
     /\ summary \in { Join(<<SEG_AMOUNT, SEG_DUE, SEG_DOC>>, SEP_JOIN),
                      Join(<<SEG_AMOUNT, SEG_DUE>>, SEP_JOIN) })
        => /\ "validator" \in pc => validator_out.some
           /\ "validation" \in pc => validation_out.some

(***************************************************************************)
(* Properties of the pipeline                                              *)
(***************************************************************************)

\* pipeline process has returned
Processed == "process" \in pc

\* the header of the notification: the timestamp, sender and subject lines
Header == Join(header_lines(account_login, message, now), << Newline >>)

\* the source text of the message: subject, body and attachment texts
Source == collect_text(message)

\* what follows the header in the returned text
SummaryPart == Slice(final_text.text, Len(Header) + 1, Len(final_text.text))

\* the texts the remote model returned to the calls made
RemoteTexts ==
    { llm_call.replies[((k - 1) % Len(llm_call.replies)) + 1].text : k \in 1..Len(llm_calls) }

\* a candidate passes the Grounding Validator of either module
PassesValidator(candidate, source) ==
    \/ validator_validate_summary(candidate, source, MIN_SIMILARITY).some
    \/ validation_validate_summary(candidate, source, MIN_SIMILARITY).some

\* the remote model is not configured, or every call of it returns nothing
NoRemote ==
    \/ ~llm_call.configured
    \/ \A k \in 1..Len(llm_call.replies) :
          llm_call.replies[k].kind # "str" \/ ~Truthy(llm_call.replies[k].text)

\* C1: text of the remote model is in the returned text only if it passed the
\* Grounding Validator against the source text of the message, and no
\* digit-run or date token of a remote reply that is absent from the source
\* text is in what follows the header of the returned text
C1_RemoteTextGrounded ==
    (Processed /\ final_text.some) =>
        /\ \A reply \in RemoteTexts :
              (/\ is_meaningful(sanitize_text(reply, SUMMARY_MAX))
               /\ Contains(SummaryPart, sanitize_text(reply, SUMMARY_MAX)))
                  => PassesValidator(reply, Source)
        /\ \A reply \in RemoteTexts :
              /\ \A run \in DigitRuns(reply) :
                    run \in DigitRuns(SummaryPart) => run \in DigitRuns(Source)
              /\ \A date \in FindDates(reply) :
                    date \in FindDates(SummaryPart) => date \in FindDates(Source)

\* C7: the returned text is at most 3500 characters long, and when the
\* assembled text was longer it is exactly 3500 characters, ends in "..."
\* and still starts with the header lines
C7_LengthCapped ==
    (Processed /\ final_text.some) =>
        /\ Len(final_text.text) <= 3500
        /\ Len(assembled) > 3500 =>
              /\ Len(final_text.text) = 3500
              /\ EndsWith(final_text.text, ELLIPSIS)
              /\ StartsWith(final_text.text, Header \o << Newline >>)

\* a message with attachments whose assembled text was longer than the cap
C7_Witness ==
    /\ Processed
    /\ final_text.some
    /\ Len(message.attachments) > 0
    /\ Len(assembled) > 3500
    /\ Len(final_text.text) = 3500

\* C8: no '|'-delimited segment of the returned text is the token "none",
\* in any case, whatever the remote model returned
C8_NoNoneToken ==
    (Processed /\ final_text.some) =>
        \A i \in 1..Len(Segments(final_text.text)) :
            Lower(Segments(final_text.text)[i]) # NONE_LOWER

\* C9: without a remote model, process returns a text when the scanner finds
\* a signal in the message text, and exactly the header when it finds none
\* and the subject is not empty
C9_FallbackChain ==
    (Processed /\ NoRemote) =>
        /\ action_signals(Source) # {} => final_text.some
        /\ (action_signals(Source) = {} /\ Truthy(message.subject))
              => final_text = Some(Header)

\* C10: for a message with empty subject, sender and body and no attachment,
\* for which the summarizer yields nothing, process returns None
C10_EmptyMessageNoOutput ==
    (/\ Processed
     /\ message.subject = << >>
     /\ message.sender = << >>
     /\ message.body = << >>
     /\ message.attachments = << >>
     /\ summarize_email(llm_call, message.body, 0).text = << >>)
        => final_text = None

(***************************************************************************)
(* The summarizer applied to a text                                        *)
(***************************************************************************)

\* 'Important notice about payment'
TEXT_NOTICE ==
    <<73, 109, 112, 111, 114, 116, 97, 110, 116, 32, 110, 111, 116, 105, 99, 101, 32, 97, 98,
      111, 117, 116, 32, 112, 97, 121, 109, 101, 110, 116>>

\* '   '
TEXT_BLANK == <<32, 32, 32>>

\* 'abc'
TEXT_ABC == <<97, 98, 99>>

\* 'data'
TEXT_DATA == <<100, 97, 116, 97>>

\* 600 characters between blanks: the trimmed text is as long as the limit
TEXT_PADDED_600 == << Space, Space >> \o Repeat(TEXT_ABC, 200) \o << Newline >>

\* 601 characters
TEXT_601 == Repeat(TEXT_ABC, 200) \o << 97 >>

\* "abc" * 300
TEXT_900 == Repeat(TEXT_ABC, 300)

\* 2100 characters: two chunks
TEXT_TWO_CHUNKS == Repeat(TEXT_DATA, 525)

\* ' ok ': a reply with blanks around it
REPLY_PADDED == <<32, 111, 107, 32>>

\* the texts given to the summarizer
SummarizerTexts ==
    { << >>, TEXT_BLANK, TEXT_NOTICE, TEXT_PADDED_600, TEXT_601, TEXT_900, TEXT_TWO_CHUNKS }

\* what one call of llm_call can do
Outcomes == { Raises, NotStr, Reply(<< >>), Reply(TEXT_BLANK), Reply(REPLY_PADDED) }

\* the length of the cycle of outcomes of a collaborator
MaxTape == 3

\* the collaborators: none, or a callable with a cycle of MaxTape outcomes
Tapes == { NoLLM } \cup { LLM(replies) : replies \in [1..MaxTape -> Outcomes] }

\* the kinds summarize_attachment is called with
Kinds == { "PDF", "GENERIC" }

InitSummarize ==
    /\ pc = {}
    /\ input_text \in SummarizerTexts
    /\ llm_call \in Tapes
    /\ email_summary = NoSummary
    /\ attachment_summary = NoSummary
    /\ account_login = << >>
    /\ message = NoMessage
    /\ now = NoDate
    /\ assembled = << >>
    /\ final_text = None
    /\ llm_calls = << >>
    /\ ValidateIdle
    /\ RuntimeIdle

\* LLMSummarizer(llm_call).summarize_email(text)
SummarizeEmail ==
    /\ "email" \notin pc
    /\ email_summary' = summarize_email(llm_call, input_text, 0)
    /\ pc' = pc \cup { "email" }
    /\ UNCHANGED <<input_text, attachment_summary, validate_vars, pipeline_vars, runtime_vars>>

\* LLMSummarizer(llm_call).summarize_attachment(text, kind)
SummarizeAttachment ==
    /\ "attachment" \notin pc
    /\ \E kind \in Kinds :
          attachment_summary' = summarize_attachment(llm_call, input_text, kind, 0)
    /\ pc' = pc \cup { "attachment" }
    /\ UNCHANGED <<input_text, email_summary, validate_vars, pipeline_vars, runtime_vars>>

NextSummarize == SummarizeEmail \/ SummarizeAttachment

SpecSummarize == InitSummarize /\ [][NextSummarize]_vars

(***************************************************************************)
(* Properties of the summarizer                                            *)
(***************************************************************************)

\* the collaborator whose raised errors are empty-string replies instead
RaisesAsEmpty(llm) ==
    [llm EXCEPT !.replies = [k \in 1..Len(llm.replies) |->
                                IF llm.replies[k].kind = "raise" THEN Reply(<< >>)
                                ELSE llm.replies[k]]]

\* the first 600 characters of the trimmed input, then "..." if it was longer
TruncatedInput ==
    IF Len(Strip(input_text)) > 600
    THEN SubSeq(Strip(input_text), 1, 600) \o ELLIPSIS
    ELSE Strip(input_text)

\* the text the k-th call of llm_call gives the adapter: the reply when it is
\* a str, nothing otherwise
ReplyText(k) ==
    IF ~llm_call.configured THEN << >>
    ELSE LET outcome == llm_call.replies[((k - 1) % Len(llm_call.replies)) + 1]
         IN  IF outcome.kind = "str" THEN outcome.text ELSE << >>

\* the chunks of the input
InputChunks == chunk_text(input_text, 2000, 250)

\* some call for one of the chunks returned text that is not blank
SomeChunkReply(chunks) == \E i \in 1..Len(chunks) : Truthy(Strip(ReplyText(i)))

\* the merge call was made and returned text that is not blank
MergeReply(chunks) == SomeChunkReply(chunks) /\ Truthy(Strip(ReplyText(Len(chunks) + 1)))

\* the result of a summarizer when it has nothing from the collaborator
FallsBack(result, chunks) ==
    /\ (Truthy(input_text) /\ ~MergeReply(chunks)) =>
          /\ result.text = TruncatedInput
          /\ Len(result.text) <= 603
    /\ ~Truthy(input_text) => result.text = << >>

\* C11: summarize_email and summarize_attachment return a str whatever the
\* collaborator does; without a collaborator, or when chunk-and-merge yields
\* nothing, it is the first 600 characters of the trimmed input followed by
\* "..." if the trimmed input was longer, at most 603 characters; and a
\* collaborator that raises gives the same results as one that returns the
\* empty string at the same steps
C11_SummarizerFallback ==
    Bind(InputChunks, LAMBDA chunks :
    Bind(RaisesAsEmpty(llm_call), LAMBDA twin :
        /\ "email" \in pc =>
              /\ FallsBack(email_summary, chunks)
              /\ (MergeReply(chunks) /\ ReplyText(Len(chunks) + 2) = << >>) =>
                    email_summary.text = TruncatedInput
              /\ twin # llm_call =>
                    email_summary.text = summarize_email(twin, input_text, 0).text
        /\ "attachment" \in pc =>
              /\ FallsBack(attachment_summary, chunks)
              /\ twin # llm_call =>
                    attachment_summary.text
                        = summarize_attachment(twin, input_text, "PDF", 0).text))

\* every call of the collaborator raised and the long input came back cut
C11_Witness ==
    /\ pc = { "email", "attachment" }
    /\ llm_call.configured
    /\ \A k \in 1..Len(llm_call.replies) : llm_call.replies[k] = Raises
    /\ Len(Strip(input_text)) > 600
    /\ Len(email_summary.text) = 603
    /\ attachment_summary.text = email_summary.text

\* the calls a summarizer made for the chunks, given its chunk prompts and
\* whether a final call follows the merge
CallDiscipline(calls, chunks, chunk_prompts, merge_prompt, with_final) ==
    LET n == Len(chunks)
    IN  /\ Len(calls) = n + (IF SomeChunkReply(chunks) THEN 1 ELSE 0)
                          + (IF with_final /\ MergeReply(chunks) THEN 1 ELSE 0)
        /\ Len(calls) <= n + (IF with_final THEN 2 ELSE 1)
        /\ \A i \in 1..n : calls[i].prompt \in chunk_prompts /\ calls[i].arg = chunks[i]
        /\ \A i \in 1..n : calls[i].prompt = calls[1].prompt
        /\ SomeChunkReply(chunks) => calls[n + 1].prompt = merge_prompt
        /\ (with_final /\ MergeReply(chunks)) => calls[n + 2].prompt = "FINAL_PROMPTS"

\* C12: with a collaborator and an input of n chunks, the adapter calls it
\* once per chunk, in chunk order, with the chunk prompt; then once with the
\* merge prompt exactly when some chunk call returned text that is not
\* blank; then, for an email only, once with the final prompt exactly when
\* the merge returned text: at most n+1 calls for an attachment and n+2 for
\* an email, and none without a collaborator
C12_CallDiscipline ==
    Bind(InputChunks, LAMBDA chunks :
        /\ "email" \in pc =>
              IF llm_call.configured /\ Truthy(input_text)
              THEN CallDiscipline(email_summary.calls, chunks,
                                  { "EMAIL_CHUNK" }, "EMAIL_MERGE", TRUE)
              ELSE email_summary.calls = << >>
        /\ "attachment" \in pc =>
              IF llm_call.configured /\ Truthy(input_text)
              THEN CallDiscipline(attachment_summary.calls, chunks,
                                  { "ATTACHMENT_CHUNK_PDF", "ATTACHMENT_CHUNK_GENERIC" },
                                  "ATTACHMENT_MERGE", FALSE)
              ELSE attachment_summary.calls = << >>)

\* an input of two chunks, and four calls for the email
C12_Witness ==
    /\ pc = { "email", "attachment" }
    /\ Len(InputChunks) = 2
    /\ Len(email_summary.calls) = 4
    /\ email_summary.calls[4].prompt = "FINAL_PROMPTS"
    /\ Len(attachment_summary.calls) = 3

(***************************************************************************)
(* config_loader.py: accounts.ini                                          *)
(*                                                                         *)
(* A section is its name and the options it gives, each a text.            *)
(***************************************************************************)

\* int(text) succeeds
IsInteger(text) == text \in { "993", "143" }

\* AccountConfig(...) of one section raises KeyError or ValueError
SectionRaises(section) ==
    \/ "login" \notin DOMAIN section.options
    \/ "password" \notin DOMAIN section.options
    \/ "port" \in DOMAIN section.options /\ ~IsInteger(section.options["port"])

\* AccountConfig of a section that does not raise
AccountConfig(section) ==
    [name |-> section.name,
     login |-> section.options["login"],
     password |-> section.options["password"],
     port |-> IF "port" \in DOMAIN section.options THEN section.options["port"] ELSE "993"]

\* load_accounts_config: ConfigError raised, or the accounts in file order
load_accounts_config(parser_sections) ==
    IF \/ \E i \in 1..Len(parser_sections) : SectionRaises(parser_sections[i])
       \/ parser_sections = << >>
    THEN [raised |-> TRUE, accounts |-> << >>]
    ELSE [raised |-> FALSE, accounts |-> MapSeq(parser_sections, AccountConfig)]

\* main: config.accounts, of load_config or of _build_safe_config; config.ini
\* and keys.ini are valid files
config_accounts(parser_sections) ==
    LET loaded == load_accounts_config(parser_sections)
    IN  IF loaded.raised THEN << >> ELSE loaded.accounts

\* check_interval: the fallback of load_general_config, and the safe default
CHECK_INTERVAL_FALLBACK == 300
SAFE_CHECK_INTERVAL == 180

\* the longest sleep between two cycles
MAX_DELAY == 180

\* main: delay
delay(check_interval) ==
    LET capped == IF check_interval < MAX_DELAY THEN check_interval ELSE MAX_DELAY
    IN  IF capped > 1 THEN capped ELSE 1

(***************************************************************************)
(* imap_client.py                                                          *)
(*                                                                         *)
(* The imapclient package is installed.  The server answers a search with *)
(* the UIDs of its INBOX: every message is younger than the SINCE date.    *)
(***************************************************************************)

\* sorted(uids)
RECURSIVE sorted(_)
sorted(uids) ==
    IF uids = {} THEN << >>
    ELSE LET least == CHOOSE u \in uids : \A v \in uids : u <= v
         IN  << least >> \o sorted(uids \ { least })

\* every UID of the search, whatever the last_uid
new_messages_unfiltered(m, login, inbox) == sorted(inbox)

\* fetch_new_messages: the UIDs of messages, in the order returned
new_messages(m, login, inbox) ==
    sorted({ uid \in inbox : uid > get_last_uid(m, login) })

\* what the connection does: every step succeeds, or one raises: the
\* connection, the login, the search, or the download of a message
Ok == [step |-> "ok", at |-> 0]
Fails(step) == [step |-> step, at |-> 0]
FailsAt(k) == [step |-> "fetch", at |-> k]

\* the outcomes of a call that has n new messages to download
FetchOutcomes(n) ==
    { Ok, Fails("connect"), Fails("login"), Fails("search") } \cup { FailsAt(k) : k \in 1..n }

\* a fetch that marks every message as soon as it is downloaded
fetch_new_messages_marks_each(m, login, inbox, outcome, t) ==
    IF outcome.step = "fetch" /\ outcome.at > 1
    THEN [messages |-> << >>,
          manager |-> set_imap_status(
                          update_last_uid(m, login,
                                          new_messages(m, login, inbox)[outcome.at - 1]),
                          login, "error", outcome.step)]
    ELSE IF outcome.step # "ok"
    THEN [messages |-> << >>, manager |-> set_imap_status(m, login, "error", outcome.step)]
    ELSE [messages |-> new_messages(m, login, inbox),
          manager |-> set_imap_status(
                          update_check_time(
                              IF new_messages(m, login, inbox) # << >>
                              THEN update_last_uid(m, login,
                                       new_messages(m, login, inbox)[Len(new_messages(m, login, inbox))])
                              ELSE m,
                              login, t),
                          login, "ok", "")]

\* fetch_new_messages at time t: `outcome` is what the connection does
fetch_new_messages(m, login, inbox, outcome, t) ==
    IF outcome.step # "ok"
    THEN [messages |-> << >>, manager |-> set_imap_status(m, login, "error", outcome.step)]
    ELSE LET messages == new_messages(m, login, inbox)
             marked == IF messages # << >>
                       THEN update_last_uid(m, login, messages[Len(messages)])
                       ELSE m
         IN  [messages |-> messages,
              manager |-> set_imap_status(update_check_time(marked, login, t),
                                          login, "ok", "")]

(***************************************************************************)
(* start.py: main, one step at a time                                      *)
(*                                                                         *)
(* main_pc is "off" before the first start, "interrupted" after a          *)
(* KeyboardInterrupt, "crashed" after the process was killed, "fatal"      *)
(* after an exception left the while loop, and otherwise the statement     *)
(* main is at.  The disk accepts every write.                              *)
(***************************************************************************)

\* the most starts of the process
MaxStarts == 2

\* the most cycles that run to their end, over all runs
MaxCycles == 2

\* the most messages an INBOX receives
MaxUid == 2

Logins == { "a", "b" }

\* sections of accounts.ini
ValidSection(login) ==
    [name |-> login, options |-> [login |-> login, password |-> "secret", port |-> "993"]]
NoLoginSection(login) == [name |-> login, options |-> [password |-> "secret"]]
NoPasswordSection(login) == [name |-> login, options |-> [login |-> login]]
BadPortSection(login) ==
    [name |-> login, options |-> [login |-> login, password |-> "secret", port |-> "imap"]]

SectionsOf(login) ==
    { ValidSection(login), NoLoginSection(login), NoPasswordSection(login),
      BadPortSection(login) }

\* accounts.ini with a section for "a" and then one for "b"
AccountFiles == { << first, second >> : first \in SectionsOf("a"), second \in SectionsOf("b") }

\* "fatal": main returned from `except Exception` around the while loop
Stopped == { "off", "interrupted", "crashed", "fatal" }
Running == main_pc \notin Stopped

\* the account the for loop is at
account == accounts[account_index]

InitMain ==
    /\ pc = {}
    /\ sections \in AccountFiles
    /\ mailbox = [login \in Logins |-> {}]
    /\ main_pc = "off"
    /\ starts = 0
    /\ accounts = << >>
    /\ cycle = 0
    /\ account_index = 0
    /\ batch = << >>
    /\ pending = {}
    /\ failed = {}
    /\ handed = {}
    /\ rehanded = {}
    /\ ok = "unbound"
    /\ manager = NoManager
    /\ state_file = Absent
    /\ tmp_file = Absent
    /\ wall_clock = 0
    /\ saving = NotSaving
    /\ reopened = NoManager
    /\ mutations = 0
    /\ ClientIdle
    /\ AskIdle
    /\ ToolsIdle
    /\ ValidateIdle
    /\ PipelineIdle
    /\ SummarizerIdle

idle_vars == <<pc, validate_vars, pipeline_vars, summarizer_vars, client_vars, ask_vars,
               tools_vars>>

\* a message arrives in the INBOX of an account
Deliver ==
    /\ \E login \in Logins :
          /\ Cardinality(mailbox[login]) < MaxUid
          /\ mailbox' = [mailbox EXCEPT ![login] = @ \cup { Cardinality(@) + 1 }]
    /\ UNCHANGED <<sections, main_pc, starts, accounts, cycle, account_index, batch, pending,
                   failed, handed, rehanded, ok, state_vars, idle_vars>>

\* main up to the while loop: the configuration, the state manager
Start ==
    /\ main_pc \in Stopped
    /\ starts < MaxStarts
    /\ starts' = starts + 1
    /\ accounts' = config_accounts(sections)
    /\ manager' = StateManager(state_file, wall_clock)
    /\ cycle' = 0
    /\ main_pc' = "while"
    /\ UNCHANGED <<sections, mailbox, account_index, batch, pending, failed, handed,
                   rehanded, ok, state_file, tmp_file, wall_clock, saving, reopened, mutations, idle_vars>>

\* the for loop moves to the next account, or ends
next_account ==
    IF account_index < Len(accounts)
    THEN /\ account_index' = account_index + 1
         /\ main_pc' = "account"
    ELSE /\ account_index' = 0
         /\ main_pc' = "save"

\* the message loop moves to the next message, or ends
next_message ==
    /\ batch' = Tail(batch)
    /\ main_pc' = IF Tail(batch) = << >> THEN "save account" ELSE "parse"

\* while True: the cycle starts
CycleStart ==
    /\ main_pc = "while"
    /\ wall_clock < MaxCycles * MAX_DELAY
    /\ cycle' = cycle + 1
    /\ failed' = {}
    /\ IF accounts = << >>
       THEN account_index' = 0 /\ main_pc' = "save"
       ELSE account_index' = 1 /\ main_pc' = "account"
    /\ UNCHANGED <<sections, mailbox, starts, accounts, batch, pending, handed, rehanded, ok,
                   state_vars, idle_vars>>

\* ResilientIMAP(account, state).fetch_new_messages(), or an exception
\* before it returns
Fetch ==
    /\ main_pc = "account"
    /\ \/ \E outcome \in { Ok, Fails("connect") } :
             \E fetched \in { fetch_new_messages(manager, account.login,
                                                 mailbox[account.login], outcome,
                                                 wall_clock) } :
                /\ manager' = fetched.manager
                /\ batch' = fetched.messages
                /\ pending' = { <<account.login, fetched.messages[i]>> :
                                  i \in 1..Len(fetched.messages) }
                /\ main_pc' = IF fetched.messages = << >> THEN "save account" ELSE "parse"
                /\ UNCHANGED failed
       \/ /\ main_pc' = "except"
          /\ failed' = failed \cup { account.login }
          /\ UNCHANGED <<manager, batch, pending>>
    /\ UNCHANGED <<sections, mailbox, starts, accounts, cycle, account_index, handed,
                   rehanded, ok, state_file, tmp_file, wall_clock, saving, reopened, mutations, idle_vars>>

\* _parse_raw_email(raw, config) of the next message, which may raise
Parse ==
    /\ main_pc = "parse"
    /\ pending' = pending \ { <<account.login, Head(batch)>> }
    /\ \/ main_pc' = "process" /\ UNCHANGED <<batch, failed>>
       \/ /\ main_pc' = "except"
          /\ failed' = failed \cup { account.login }
          /\ batch' = << >>
    /\ UNCHANGED <<sections, mailbox, starts, accounts, cycle, account_index, handed,
                   rehanded, ok, state_vars, idle_vars>>

\* processor.process(account.login, inbound): it raises, or returns no text,
\* or returns the text to send
Process ==
    /\ main_pc = "process"
    /\ handed' = handed \cup { <<account.login, Head(batch)>> }
    /\ rehanded' = rehanded \cup ({ <<account.login, Head(batch)>> } \cap handed)
    /\ \/ next_message
       \/ main_pc' = "send" /\ UNCHANGED batch
    /\ UNCHANGED <<sections, mailbox, starts, accounts, cycle, account_index, pending,
                   failed, ok, state_vars, idle_vars>>

\* what send_telegram(...) does: it returns True, returns False, or raises
SendOutcomes == { "True", "False", "raises" }

\* a send that is tried again when it did not succeed
Send_retries ==
    /\ main_pc = "send"
    /\ \E outcome \in SendOutcomes :
          /\ ok' = IF outcome = "True" THEN "True" ELSE "False"
          /\ IF outcome = "True" THEN next_message ELSE UNCHANGED <<main_pc, batch>>
    /\ UNCHANGED <<sections, mailbox, starts, accounts, cycle, account_index, pending,
                   failed, handed, rehanded, state_vars, idle_vars>>

\* ok = send_telegram(...), or ok = False when it raises; the outcome is
\* logged and the message loop goes on
Send ==
    /\ main_pc = "send"
    /\ \E outcome \in SendOutcomes :
          ok' = IF outcome = "True" THEN "True" ELSE "False"
    /\ next_message
    /\ UNCHANGED <<sections, mailbox, starts, accounts, cycle, account_index, pending,
                   failed, handed, rehanded, state_vars, idle_vars>>

\* state.save() of the running process, all its steps
StateSave ==
    \E done \in { save(manager, state_file, FALSE, wall_clock) } :
        /\ manager' = done.manager
        /\ state_file' = done.state_file
        /\ tmp_file' = IF should_save(manager, FALSE, wall_clock) THEN Absent ELSE tmp_file
        /\ UNCHANGED <<wall_clock, saving, reopened, mutations>>

\* the account is done: state.save()
SaveAccount ==
    /\ main_pc = "save account"
    /\ StateSave
    /\ next_account
    /\ UNCHANGED <<sections, mailbox, starts, accounts, cycle, batch, pending, failed,
                   handed, rehanded, ok, idle_vars>>

\* the process ends where it is: nothing of its memory is left
ProcessEnds(how) ==
    /\ Running
    /\ main_pc' = how
    /\ manager' = NoManager
    /\ accounts' = << >>
    /\ cycle' = 0
    /\ account_index' = 0
    /\ batch' = << >>
    /\ pending' = {}
    /\ failed' = {}
    /\ ok' = "unbound"
    /\ UNCHANGED <<sections, mailbox, starts, handed, rehanded, state_file, tmp_file,
                   wall_clock, saving, reopened, mutations, idle_vars>>

\* an account's failure that leaves the while loop: main logs it and returns
AccountFailed_fatal ==
    /\ main_pc = "except"
    /\ ProcessEnds("fatal")

\* except Exception: the account failed, state.save(), continue
AccountFailed ==
    /\ main_pc = "except"
    /\ StateSave
    /\ next_account
    /\ UNCHANGED <<sections, mailbox, starts, accounts, cycle, batch, pending, failed,
                   handed, rehanded, ok, idle_vars>>

\* the accounts are done: state.save()
SaveCycle ==
    /\ main_pc = "save"
    /\ StateSave
    /\ main_pc' = "sleep"
    /\ UNCHANGED <<sections, mailbox, starts, accounts, cycle, account_index, batch,
                   pending, failed, handed, rehanded, ok, idle_vars>>

\* time.sleep(delay)
Sleep ==
    /\ main_pc = "sleep"
    /\ wall_clock' = wall_clock + delay(IF load_accounts_config(sections).raised
                                        THEN SAFE_CHECK_INTERVAL
                                        ELSE CHECK_INTERVAL_FALLBACK)
    /\ main_pc' = "while"
    /\ UNCHANGED <<sections, mailbox, starts, accounts, cycle, account_index, batch,
                   pending, failed, handed, rehanded, ok, manager, state_file, tmp_file,
                   saving, reopened, mutations, idle_vars>>

\* except KeyboardInterrupt: main returns
Interrupt == ProcessEnds("interrupted")

\* the process is killed
Crash == ProcessEnds("crashed")

NextMain ==
    \/ Deliver
    \/ Start
    \/ CycleStart
    \/ Fetch
    \/ Parse
    \/ Process
    \/ Send
    \/ SaveAccount
    \/ AccountFailed
    \/ SaveCycle
    \/ Sleep
    \/ Interrupt
    \/ Crash

SpecMain == InitMain /\ [][NextMain]_vars

\* the program runs: main takes its next step, whatever it is
MainStep ==
    \/ CycleStart
    \/ Fetch
    \/ Parse
    \/ Process
    \/ Send
    \/ SaveAccount
    \/ AccountFailed
    \/ SaveCycle
    \/ Sleep

\* a running process is not stopped for ever between two statements
SpecMainFair == SpecMain /\ WF_vars(MainStep)

(***************************************************************************)
(* Properties of the main loop                                             *)
(***************************************************************************)

\* the UIDs of the batch
BatchUids == { batch[i] : i \in 1..Len(batch) }

\* C13: an exception while handling one message of a batch skips that
\* message only: every fetched message the message loop has not taken yet
\* is still in the batch the loop is working on
C13_LaterMessagesStillHandled ==
    \A message_id \in pending :
        /\ main_pc \in { "parse", "process", "send" }
        /\ message_id[1] = account.login
        /\ message_id[2] \in BatchUids

\* a StateManager opened on the state file would hold what the manager holds
StateIsSaved ==
    LET on_disk == load_state(state_file, wall_clock)
    IN  /\ ~manager.dirty
        /\ on_disk.accounts = manager.state.accounts
        /\ on_disk.llm = manager.state.llm

\* the process was ended from outside
EndedFromOutside == main_pc \in { "interrupted", "crashed" }

C15_ValidAccountsKept ==
    Running =>
        \A i \in 1..Len(sections) :
            ~SectionRaises(sections[i]) =>
                \E j \in 1..Len(accounts) : accounts[j].login = sections[i].options["login"]

\* C16: no UID of an account is handed to the processor twice, whatever
\* cycles, interruptions, kills and restarts happen
C16_NoUidHandedTwice == rehanded = {}

\* C20: the accounts are taken in configuration order, an account is
\* fetched only when every message fetched before has been taken by the
\* message loop, and the messages of a batch are taken in ascending UID order
C20_OneAccountAtATime ==
    [][/\ (main_pc = "account" /\ main_pc' \in { "parse", "save account", "except" }) =>
              pending = {}
       /\ (main_pc' = "save" /\ Running) => pending' = {}
       /\ (Running /\ Running') =>
              \/ account_index' = account_index
              \/ account_index' = account_index + 1 /\ account_index' <= Len(accounts)
              \/ account_index = Len(accounts) /\ account_index' = 0
              \/ main_pc = "while"
       /\ \A i, j \in 1..Len(batch') : i < j => batch'[i] < batch'[j]
       /\ (Running /\ Running' /\ batch' # batch) =>
              \/ main_pc = "account"
              \/ batch' = Tail(batch)
              \/ main_pc' = "except"]_vars

\* the last_uid of every account never falls while the process runs
LastUidKept ==
    \A login \in Logins : get_last_uid(manager', login) >= get_last_uid(manager, login)

\* the step is one of main, and not the end of the process
MainActs == Running' /\ mailbox' = mailbox

\* C21: a send is attempted only for a message whose processing returned a
\* text, and once: whatever the send does, the message loop leaves the
\* message; and a message is in no later batch of the running process,
\* because a batch holds only UIDs above the last_uid, which the fetch moves
\* to the largest of them and which never falls
C21_OneSendPerMessage ==
    [][/\ (main_pc' = "send" /\ main_pc # "send") => main_pc = "process" /\ batch' = batch
       /\ (main_pc = "send" /\ MainActs) =>
              /\ main_pc' \in { "parse", "save account" }
              /\ batch' = Tail(batch)
              /\ ok' \in { "True", "False" }
       /\ (main_pc = "process" /\ MainActs /\ main_pc' # "send") =>
              batch' = Tail(batch) /\ ok' = ok
       /\ (Running /\ Running') => LastUidKept
       /\ (main_pc = "account" /\ main_pc' \in { "parse", "save account" }) =>
              \A i \in 1..Len(batch') :
                 /\ batch'[i] > get_last_uid(manager, account.login)
                 /\ batch'[i] <= get_last_uid(manager', account.login)]_vars

\* a send failed or crashed, the message loop went on with the second
\* message of the batch, and a later cycle fetches account a again
C21_Witness ==
    /\ ok = "False"
    /\ cycle = 2
    /\ main_pc = "account"
    /\ account.login = "a"
    /\ <<"a", 1>> \in handed

(***************************************************************************)
(* A StateManager used, saved one statement at a time, and opened again    *)
(***************************************************************************)

\* the most changes of the state
MaxMutations == 2

\* the most days that pass
MaxDays == 1

\* the tokens one call adds
TOKENS == 50

InitState ==
    /\ pc = {}
    /\ manager = StateManager(Absent, 0)
    /\ state_file = Absent
    /\ tmp_file = Absent
    /\ wall_clock = 0
    /\ saving = NotSaving
    /\ reopened = NoManager
    /\ mutations = 0
    /\ MainIdle
    /\ ClientIdle
    /\ AskIdle
    /\ ToolsIdle
    /\ ValidateIdle
    /\ PipelineIdle
    /\ SummarizerIdle

rest_vars == <<pc, validate_vars, pipeline_vars, summarizer_vars, main_vars, client_vars,
               ask_vars, tools_vars>>

\* the lock is free and the manager can be changed to `changed`
Mutate(changed) ==
    /\ manager.alive
    /\ saving.step \in { "idle", "returned" }
    /\ mutations < MaxMutations
    /\ mutations' = mutations + 1
    /\ manager' = changed
    /\ saving' = NotSaving
    /\ reopened' = NoManager
    /\ UNCHANGED <<state_file, tmp_file, wall_clock, rest_vars>>

UpdateLastUid == \E login \in Logins, uid \in 1..MaxUid : Mutate(update_last_uid(manager, login, uid))

UpdateCheckTime == \E login \in Logins : Mutate(update_check_time(manager, login, wall_clock))

SetImapStatus ==
    \E login \in Logins, result \in { <<"ok", "">>, <<"error", "exc">> } :
        Mutate(set_imap_status(manager, login, result[1], result[2]))

AddTokens == Mutate(add_tokens(manager, TOKENS, wall_clock))

SetLLMUnavailable ==
    \E result \in { <<TRUE, "maintenance">>, <<FALSE, "">> } :
        Mutate(set_llm_unavailable(manager, result[1], result[2]))

\* a day passes
Tick ==
    /\ wall_clock < MaxDays * DAY
    /\ wall_clock' = wall_clock + DAY
    /\ UNCHANGED <<manager, state_file, tmp_file, saving, reopened, mutations, rest_vars>>

\* save(force) up to the payload: it returns at once when there is nothing
\* to save
SaveBegin ==
    /\ manager.alive
    /\ saving.step \in { "idle", "returned" }
    /\ \E force \in BOOLEAN :
          saving' = [step |-> IF should_save(manager, force, wall_clock)
                              THEN "open" ELSE "returned",
                     force |-> force,
                     now |-> wall_clock,
                     payload |-> Payload(manager.state, wall_clock),
                     found |-> state_file]
    /\ reopened' = NoManager
    /\ UNCHANGED <<manager, state_file, tmp_file, wall_clock, mutations, rest_vars>>

\* a save that opens the state file itself for writing
SaveOpen_in_place ==
    /\ saving.step = "open"
    /\ state_file' = File(<< >>)
    /\ saving' = [saving EXCEPT !.step = "write"]
    /\ UNCHANGED <<manager, tmp_file, wall_clock, reopened, mutations, rest_vars>>

\* open(tmp_file, "w"): the temporary file is there, and empty
SaveOpen ==
    /\ saving.step = "open"
    /\ tmp_file' = File(<< >>)
    /\ saving' = [saving EXCEPT !.step = "write"]
    /\ UNCHANGED <<manager, state_file, wall_clock, reopened, mutations, rest_vars>>

\* json.dump(payload, fh): the next member reaches the temporary file; the
\* file is closed after the last
SaveWrite ==
    /\ saving.step = "write"
    /\ tmp_file.exists
    /\ tmp_file' = File(Append(tmp_file.content, saving.payload[Len(tmp_file.content) + 1]))
    /\ saving' = [saving EXCEPT !.step = IF Len(tmp_file.content) + 1 = Len(saving.payload)
                                         THEN "replace" ELSE "write"]
    /\ UNCHANGED <<manager, state_file, wall_clock, reopened, mutations, rest_vars>>

\* tmp_file.replace(self.state_file), and save returns
SaveReplace ==
    /\ saving.step = "replace"
    /\ state_file' = tmp_file
    /\ tmp_file' = Absent
    /\ manager' = saved(manager, saving.now)
    /\ saving' = [saving EXCEPT !.step = "returned"]
    /\ UNCHANGED <<wall_clock, reopened, mutations, rest_vars>>

\* StateManager(state_file) once more, after save has returned
Reopen ==
    /\ saving.step = "returned"
    /\ ~reopened.alive
    /\ reopened' = StateManager(state_file, wall_clock)
    /\ UNCHANGED <<manager, state_file, tmp_file, wall_clock, saving, mutations, rest_vars>>

\* the process is killed, at any statement
Kill ==
    /\ manager.alive
    /\ manager' = NoManager
    /\ saving' = IF saving.step \in { "open", "write", "replace" }
                  THEN [saving EXCEPT !.step = "killed"]
                  ELSE NotSaving
    /\ reopened' = NoManager
    /\ UNCHANGED <<state_file, tmp_file, wall_clock, mutations, rest_vars>>

\* the process starts again: StateManager(state_file)
Open ==
    /\ ~manager.alive
    /\ manager' = StateManager(state_file, wall_clock)
    /\ saving' = NotSaving
    /\ UNCHANGED <<state_file, tmp_file, wall_clock, reopened, mutations, rest_vars>>

NextState ==
    \/ UpdateLastUid
    \/ UpdateCheckTime
    \/ SetImapStatus
    \/ AddTokens
    \/ SetLLMUnavailable
    \/ Tick
    \/ SaveBegin
    \/ SaveOpen
    \/ SaveWrite
    \/ SaveReplace
    \/ Reopen
    \/ Kill
    \/ Open

SpecState == InitState /\ [][NextState]_vars

(***************************************************************************)
(* Properties of the state manager                                         *)
(***************************************************************************)

\* C18: the state file is absent or a complete document at every statement
\* of save and after a kill at any of them: from the start of a save on it
\* is the file save found or the complete new snapshot, and the state file
\* is never the file being written
C18_StateFileNeverPartial ==
    /\ state_file.exists => IsJSON(state_file.content)
    /\ saving.step # "idle" =>
          \/ state_file = saving.found
          \/ state_file = File(saving.payload)

\* the process was killed with the temporary file partly written, over a
\* state file of an earlier save
C18_Witness ==
    /\ saving.step = "killed"
    /\ tmp_file.exists
    /\ Len(tmp_file.content) \in 1..2
    /\ state_file.exists
    /\ state_file.content # saving.payload

\* what a StateManager lets its user observe
Observed(m) ==
    [last_uid |-> [login \in Logins |-> get_last_uid(m, login)],
     last_check_time |-> [login \in Logins |-> get_last_check_time(m, login)],
     tokens_used_today |-> m.state.llm.tokens_used_today,
     unavailable |-> m.state.llm.unavailable,
     last_error |-> m.state.llm.last_error]

\* C19: a StateManager opened on the state file after save returned, forced
\* or not, observes the last UID and last check time of every account, the
\* token count and the unavailable flag and error of the LLM that the
\* saving manager holds
C19_SavedStateObserved ==
    (reopened.alive /\ manager.alive) => Observed(reopened) = Observed(manager)

\* two changes, a save that was not forced, and the state opened again
C19_Witness ==
    /\ reopened.alive
    /\ manager.alive
    /\ mutations = 2
    /\ ~saving.force
    /\ get_last_uid(reopened, "a") = 2
    /\ reopened.state.llm.tokens_used_today = TOKENS

(***************************************************************************)
(* bot_core/llm_client.py: threads that call CloudflareLLM.ask             *)
(*                                                                         *)
(* Time is in tenths of a second and passes between any two statements of  *)
(* any thread.  What the reply does to the state manager is left out.      *)
(***************************************************************************)

\* min_interval: 2.2 seconds
MIN_INTERVAL == 22

\* the time that passes at once
TICK == 11

\* how many times time passes
MaxTicks == 4

\* the most requests sent
MaxRequests == 2

Threads == { "t1", "t2" }

\* a thread outside ask
Outside == [at |-> "outside", wake |-> 0]

InitClient ==
    /\ pc = {}
    /\ time_time = MIN_INTERVAL
    /\ llm_lock = "free"
    /\ last_call = 0
    /\ llm_threads = [t \in Threads |-> Outside]
    /\ request_times = << >>
    /\ AskIdle
    /\ ToolsIdle
    /\ StateIdle
    /\ MainIdle
    /\ ValidateIdle
    /\ PipelineIdle
    /\ SummarizerIdle

others_vars == <<pc, validate_vars, pipeline_vars, summarizer_vars, state_vars, main_vars,
                 ask_vars, tools_vars>>

\* time passes
TimePasses ==
    /\ time_time < MIN_INTERVAL + MaxTicks * TICK
    /\ time_time' = time_time + TICK
    /\ UNCHANGED <<llm_lock, last_call, llm_threads, request_times, others_vars>>

\* ask, _throttle: the thread takes the lock, reads the time, and sleeps
\* if the last call is too recent
Throttle(t) ==
    /\ llm_threads[t].at = "outside"
    /\ Len(request_times) < MaxRequests
    /\ llm_lock = "free"
    /\ llm_lock' = t
    /\ llm_threads' =
          [llm_threads EXCEPT ![t] =
              IF time_time - last_call < MIN_INTERVAL
              THEN [at |-> "sleep", wake |-> time_time + (MIN_INTERVAL - (time_time - last_call))]
              ELSE [at |-> "stamp", wake |-> 0]]
    /\ UNCHANGED <<time_time, last_call, request_times, others_vars>>

\* time.sleep(...) returns
Wake(t) ==
    /\ llm_threads[t].at = "sleep"
    /\ time_time >= llm_threads[t].wake
    /\ llm_threads' = [llm_threads EXCEPT ![t] = [at |-> "stamp", wake |-> 0]]
    /\ UNCHANGED <<time_time, llm_lock, last_call, request_times, others_vars>>

\* self._last_call = time.time(), and the lock is released
Stamp(t) ==
    /\ llm_threads[t].at = "stamp"
    /\ last_call' = time_time
    /\ llm_lock' = "free"
    /\ llm_threads' = [llm_threads EXCEPT ![t] = [at |-> "trim", wake |-> 0]]
    /\ UNCHANGED <<time_time, request_times, others_vars>>

\* ask: the user text is blank and ask returns, or the payload is built
Trim(t) ==
    /\ llm_threads[t].at = "trim"
    /\ \E blank \in BOOLEAN :
          llm_threads' = [llm_threads EXCEPT ![t] =
                             IF blank THEN Outside ELSE [at |-> "post", wake |-> 0]]
    /\ UNCHANGED <<time_time, llm_lock, last_call, request_times, others_vars>>

\* requests.post(...): the request is sent; ask returns
Post(t) ==
    /\ llm_threads[t].at = "post"
    /\ request_times' = Append(request_times, time_time)
    /\ llm_threads' = [llm_threads EXCEPT ![t] = Outside]
    /\ UNCHANGED <<time_time, llm_lock, last_call, others_vars>>

NextClient ==
    \/ TimePasses
    \/ \E t \in Threads : Throttle(t)
    \/ \E t \in Threads : Wake(t)
    \/ \E t \in Threads : Stamp(t)
    \/ \E t \in Threads : Trim(t)
    \/ \E t \in Threads : Post(t)

SpecClient == InitClient /\ [][NextClient]_vars

(***************************************************************************)
(* Properties of the LLM client                                            *)
(***************************************************************************)

\* C17: any two requests to the remote model are sent at least
\* min_interval apart, whatever the interleaving of the calling threads
C17_RequestsSpaced ==
    \A i, j \in 1..Len(request_times) :
        i < j => request_times[j] - request_times[i] >= MIN_INTERVAL

(***************************************************************************)
(* bot_core/llm_client.py: ask, its request and the handling of the reply  *)
(***************************************************************************)

\* "\n\nТекст:\n"
PROMPT_JOIN == <<10, 10, 1058, 1077, 1082, 1089, 1090, 58, 10>>

\* max_chars: the default
MAX_CHARS == 4000

\* the values of a JSON document: a dict holds one key at most
JNull == [type |-> "null"]
JNumber == [type |-> "number"]
JList == [type |-> "list"]
JStr(text) == [type |-> "str", text |-> text]
JEmpty == [type |-> "dict", key |-> "", value |-> JNull]
JDict(key, value) == [type |-> "dict", key |-> key, value |-> value]

\* the value has a method get
HasGet(data) == data.type = "dict"

\* data.get(key, default)
dict_get(data, key, default) == IF data.key = key THEN data.value ELSE default

\* the classes an exception is an instance of
Bases(class) ==
    CASE class = "Timeout" -> { "Timeout", "RequestException", "Exception" }
      [] class = "ConnectionError" -> { "ConnectionError", "RequestException", "Exception" }
      [] class = "HTTPError" -> { "HTTPError", "RequestException", "Exception" }
      [] class = "JSONDecodeError" ->
             { "JSONDecodeError", "RequestException", "ValueError", "Exception" }
      [] OTHER -> { class, "Exception" }

IsInstance(class, base) == base \in Bases(class)

\* what a block of statements ends with: an exception, or a text
Raised(class, what) == [raised |-> TRUE, class |-> class, message |-> what, text |-> << >>]
Returned(text) == [raised |-> FALSE, class |-> "", message |-> "", text |-> text]

\* ask: requests.post, raise_for_status, response.json() and the text of
\* the reply
response_text(response) ==
    IF response.kind = "raises" THEN Raised(response.class, response.class)
    ELSE IF ~HasGet(response.data) THEN Raised("AttributeError", "AttributeError")
    ELSE LET result == dict_get(response.data, "result", JEmpty)
         IN  IF ~HasGet(result) THEN Raised("AttributeError", "AttributeError")
             ELSE LET reply == dict_get(result, "response", JStr(<< >>))
                  IN  IF reply.type # "str" THEN Raised("AttributeError", "AttributeError")
                      ELSE IF ~Truthy(Strip(reply.text))
                      THEN Raised("ValueError", "Empty LLM response")
                      ELSE Returned(Strip(reply.text))

\* f"Cloudflare API error: {str(e)}"
api_error(what) ==
    CASE what = "ConnectionError" -> "Cloudflare API error: ConnectionError"
      [] what = "HTTPError" -> "Cloudflare API error: HTTPError"
      [] what = "JSONDecodeError" -> "Cloudflare API error: JSONDecodeError"
      [] OTHER -> "Cloudflare API error"

\* f"LLM error: {str(e)}"
llm_error(what) ==
    CASE what = "Empty LLM response" -> "LLM error: Empty LLM response"
      [] what = "AttributeError" -> "LLM error: AttributeError"
      [] what = "ValueError" -> "LLM error: ValueError"
      [] OTHER -> "LLM error"

\* ask: approx_tokens
approx_tokens(full_prompt, text) ==
    LET quarter == (Len(full_prompt) + Len(text)) \div 4
    IN  IF quarter > 1 THEN quarter ELSE 1

\* ask: user_trimmed
user_trimmed(user_text, max_chars) ==
    LET text == IF user_text.some THEN user_text.text ELSE << >>
    IN  Slice(text, 1, IF max_chars < Len(text) THEN max_chars ELSE Len(text))

\* what ask hands back: the text, the state manager, and whether it raised
AskDone(text, m, raised) == [text |-> text, manager |-> m, raised |-> raised]

\* ask without its last handler: no `except Exception`
ask_without_last_handler(m, system_prompt, user_text, max_chars, response, t) ==
    LET outcome == response_text(response)
    IN  IF ~Truthy(Strip(user_trimmed(user_text, max_chars))) THEN AskDone(<< >>, m, FALSE)
        ELSE IF ~outcome.raised
        THEN AskDone(outcome.text,
                     set_llm_unavailable(
                         add_tokens(m, approx_tokens(Strip(system_prompt) \o PROMPT_JOIN
                                                        \o user_trimmed(user_text, max_chars),
                                                     outcome.text), t),
                         FALSE, ""),
                     FALSE)
        ELSE IF IsInstance(outcome.class, "Timeout")
        THEN AskDone(<< >>, set_llm_unavailable(m, TRUE, "Cloudflare API timeout"), FALSE)
        ELSE IF IsInstance(outcome.class, "RequestException")
        THEN AskDone(<< >>, set_llm_unavailable(m, TRUE, api_error(outcome.message)), FALSE)
        ELSE AskDone(<< >>, m, TRUE)

\* ask(system_prompt, user_text, max_chars) at time t, after _throttle:
\* `response` is what the request meets
ask(m, system_prompt, user_text, max_chars, response, t) ==
    LET outcome == response_text(response)
    IN  IF ~Truthy(Strip(user_trimmed(user_text, max_chars))) THEN AskDone(<< >>, m, FALSE)
        ELSE IF ~outcome.raised
        THEN AskDone(outcome.text,
                     set_llm_unavailable(
                         add_tokens(m, approx_tokens(Strip(system_prompt) \o PROMPT_JOIN
                                                        \o user_trimmed(user_text, max_chars),
                                                     outcome.text), t),
                         FALSE, ""),
                     FALSE)
        ELSE IF IsInstance(outcome.class, "Timeout")
        THEN AskDone(<< >>, set_llm_unavailable(m, TRUE, "Cloudflare API timeout"), FALSE)
        ELSE IF IsInstance(outcome.class, "RequestException")
        THEN AskDone(<< >>, set_llm_unavailable(m, TRUE, api_error(outcome.message)), FALSE)
        ELSE IF IsInstance(outcome.class, "Exception")
        THEN AskDone(<< >>, set_llm_unavailable(m, TRUE, llm_error(outcome.message)), FALSE)
        ELSE AskDone(<< >>, m, TRUE)

(***************************************************************************)
(* One caller of ask, call after call                                      *)
(***************************************************************************)

\* the most calls of ask
MaxAsks == 2

\* " Summarize "
SYSTEM_PROMPT == <<32, 83, 117, 109, 109, 97, 114, 105, 122, 101, 32>>

\* None, "", "  ", "ab cd", "  ab"
UserTexts ==
    { None, Some(<< >>), Some(<<32, 32>>), Some(<<97, 98, 32, 99, 100>>),
      Some(<<32, 32, 97, 98>>) }

\* a limit of two characters, and the default
MaxChars == { 2, MAX_CHARS }

\* the request raises, or its reply is a JSON document
Raising(class) == [kind |-> "raises", class |-> class, data |-> JNull]
Json(data) == [kind |-> "json", class |-> "", data |-> data]

Responses ==
    { Raising(class) : class \in { "Timeout", "ConnectionError", "HTTPError",
                                   "JSONDecodeError", "ValueError" } }
    \cup { Json(data) : data \in
              { JList, JNull, JEmpty,
                JDict("result", JNull),
                JDict("result", JEmpty),
                JDict("result", JDict("response", JNull)),
                JDict("result", JDict("response", JNumber)),
                JDict("result", JDict("response", JStr(<< >>))),
                JDict("result", JDict("response", JStr(<<32, 10>>))),
                JDict("result", JDict("response", JStr(REPLY_PADDED))),
                JDict("result", JDict("response", JStr(REPLY_GROUNDED))) } }

InitAsk ==
    /\ pc = {}
    /\ manager = StateManager(Absent, 0)
    /\ state_file = Absent
    /\ tmp_file = Absent
    /\ wall_clock = 0
    /\ saving = NotSaving
    /\ reopened = NoManager
    /\ mutations = 0
    /\ time_time = MIN_INTERVAL
    /\ llm_lock = "free"
    /\ last_call = 0
    /\ llm_threads = << >>
    /\ request_times = << >>
    /\ asked = NoCall
    /\ ToolsIdle
    /\ MainIdle
    /\ ValidateIdle
    /\ PipelineIdle
    /\ SummarizerIdle

\* _throttle of a single caller: the time at which it returns
throttled(t, last) == IF t - last < MIN_INTERVAL THEN last + MIN_INTERVAL ELSE t

\* ask(...) by the one caller, from _throttle to its return
Ask ==
    /\ time_time < MIN_INTERVAL * MaxAsks
    /\ time_time' = throttled(time_time, last_call)
    /\ last_call' = throttled(time_time, last_call)
    /\ \E user_text \in UserTexts, max_chars \in MaxChars, response \in Responses :
          \E done \in { ask(manager, SYSTEM_PROMPT, user_text, max_chars, response,
                            wall_clock) } :
             /\ manager' = done.manager
             /\ asked' = [called |-> TRUE,
                          user_text |-> user_text,
                          max_chars |-> max_chars,
                          response |-> response,
                          text |-> done.text,
                          raised |-> done.raised,
                          at |-> wall_clock,
                          before |-> manager.state.llm]
    /\ UNCHANGED <<pc, validate_vars, pipeline_vars, summarizer_vars, main_vars,
                   state_file, tmp_file, wall_clock, saving, reopened, mutations,
                   llm_lock, llm_threads, request_times, tools_vars>>

NextAsk ==
    \/ Ask
    \/ Tick

SpecAsk == InitAsk /\ [][NextAsk]_vars

(***************************************************************************)
(* Properties of ask                                                       *)
(***************************************************************************)

\* the input of the last call is blank once cut to max_chars
AskedBlank == ~Truthy(Strip(user_trimmed(asked.user_text, asked.max_chars)))

\* the reply of the last call is a JSON document whose result.response is
\* a text that is not blank
GoodReply ==
    /\ asked.response.kind = "json"
    /\ asked.response.data.type = "dict"
    /\ asked.response.data.key = "result"
    /\ asked.response.data.value.type = "dict"
    /\ asked.response.data.value.key = "response"
    /\ asked.response.data.value.value.type = "str"
    /\ Truthy(Strip(asked.response.data.value.value.text))

\* the token counter as the last call found it, on the day of the call
TokensBefore ==
    IF asked.before.date = Today(asked.at) THEN asked.before.tokens_used_today ELSE 0

\* C22: ask does not raise; when its input is not blank, a call that meets
\* a timeout, a transport error, a malformed or an empty reply returns ""
\* and leaves the flag unavailable set with an error text and the token
\* counter as it was, and a call that gets a text returns it trimmed, leaves
\* the flag cleared and the counter larger
C22_AskRecordsOutcome ==
    asked.called =>
        /\ ~asked.raised
        /\ (~AskedBlank /\ ~GoodReply) =>
              /\ asked.text = << >>
              /\ manager.state.llm.unavailable
              /\ manager.state.llm.last_error # ""
              /\ manager.state.llm.tokens_used_today = asked.before.tokens_used_today
              /\ manager.state.llm.date = asked.before.date
        /\ (~AskedBlank /\ GoodReply) =>
              /\ asked.text = Strip(asked.response.data.value.value.text)
              /\ ~manager.state.llm.unavailable
              /\ manager.state.llm.last_error = ""
              /\ manager.state.llm.tokens_used_today > TokensBefore
              /\ manager.state.llm.date = Today(asked.at)

\* a call met a reply without a text after an earlier call had added tokens
C22_Witness ==
    /\ asked.called
    /\ ~AskedBlank
    /\ asked.response = Json(JDict("result", JDict("response", JNull)))
    /\ asked.before.tokens_used_today > 0
    /\ manager.state.llm.unavailable

(***************************************************************************)
(* llm/chunker.py: chunk_text, one iteration of its loop at a time         *)
(***************************************************************************)

\* the longest text
MaxTextLen == 4

\* the largest size, and the largest overlap
MaxSize == 3

\* the most chunks the list holds
MaxChunks == 6

\* "a", "b", " "
Alphabet == { 97, 98, 32 }

Texts == UNION { [1..n -> Alphabet] : n \in 0..MaxTextLen }

InitChunk ==
    /\ pc = {}
    /\ chunk_call \in [text : Texts, size : 1..MaxSize, overlap : 0..MaxSize]
    /\ chunk_start = 0
    /\ chunk_list = << >>
    /\ chunk_pc = "off"
    /\ TextIdle
    /\ OpenIdle
    /\ FetchIdle
    /\ StateIdle
    /\ MainIdle
    /\ ClientIdle
    /\ AskIdle
    /\ ValidateIdle
    /\ PipelineIdle
    /\ SummarizerIdle

beside_chunker == <<pc, validate_vars, pipeline_vars, summarizer_vars, state_vars, main_vars,
                    client_vars, ask_vars, text_vars, open_vars, fetch_vars>>

\* chunk_text(text, size, overlap) up to its loop: no text, no chunks
ChunkCall ==
    /\ chunk_pc = "off"
    /\ chunk_pc' = IF Truthy(chunk_call.text) THEN "while" ELSE "returned"
    /\ chunk_start' = 0
    /\ chunk_list' = << >>
    /\ UNCHANGED <<chunk_call, beside_chunker>>

\* text[start:end].strip()
window(text, from, size) ==
    Strip(Slice(text, from + 1, IF from + size < Len(text) THEN from + size ELSE Len(text)))

\* while start < length: the chunk of the window, and the next start
ChunkIterate ==
    /\ chunk_pc = "while"
    /\ chunk_start < Len(chunk_call.text)
    /\ Len(chunk_list) < MaxChunks
    /\ \E chunk \in { window(chunk_call.text, chunk_start, chunk_call.size) } :
          chunk_list' = IF Truthy(chunk) THEN Append(chunk_list, chunk) ELSE chunk_list
    /\ chunk_start' = IF chunk_start + chunk_call.size - chunk_call.overlap < 0 THEN 0
                      ELSE chunk_start + chunk_call.size - chunk_call.overlap
    /\ UNCHANGED <<chunk_call, chunk_pc, beside_chunker>>

\* the loop ends: return chunks
ChunkReturn ==
    /\ chunk_pc = "while"
    /\ chunk_start >= Len(chunk_call.text)
    /\ chunk_pc' = "returned"
    /\ UNCHANGED <<chunk_call, chunk_start, chunk_list, beside_chunker>>

NextChunk ==
    \/ ChunkCall
    \/ ChunkIterate
    \/ ChunkReturn

SpecChunk == InitChunk /\ [][NextChunk]_vars

\* the call is not held up for ever
SpecChunkFair == SpecChunk /\ WF_vars(NextChunk)

(***************************************************************************)
(* Properties of chunk_text                                                *)
(***************************************************************************)

\* the last k characters of a text, and the first k
LastChars(text, k) == Slice(text, IF Len(text) > k THEN Len(text) - k + 1 ELSE 1, Len(text))
FirstChars(text, k) == Slice(text, 1, IF Len(text) > k THEN k ELSE Len(text))

\* C23: when size > overlap, the last `overlap` characters of every chunk
\* are the first `overlap` characters of the chunk after it
C23_ChunksOverlap ==
    (chunk_pc = "returned" /\ chunk_call.size > chunk_call.overlap) =>
        \A i \in 2..Len(chunk_list) :
            LastChars(chunk_list[i - 1], chunk_call.overlap)
                = FirstChars(chunk_list[i], chunk_call.overlap)

\* C24: when size > overlap, no text gives no chunk, and a text shorter
\* than size gives one chunk, the text trimmed
C24_SmallTextOneChunk ==
    (chunk_pc = "returned" /\ chunk_call.size > chunk_call.overlap) =>
        /\ chunk_call.text = << >> => chunk_list = << >>
        /\ (Truthy(chunk_call.text) /\ Len(chunk_call.text) < chunk_call.size) =>
              chunk_list = << Strip(chunk_call.text) >>

\* C25: chunk_text returns, whatever the text, the size and the overlap;
\* and when size > overlap every window starts size - overlap characters
\* after the window before it
C25_ChunkTextTerminates ==
    /\ <>(chunk_pc = "returned")
    /\ [][(chunk_pc = "while" /\ chunk_pc' = "while"
             /\ chunk_call.size > chunk_call.overlap) =>
              chunk_start' = chunk_start + chunk_call.size - chunk_call.overlap]_vars

(***************************************************************************)
(* text/sanitize.py and text/clean_email.py applied to a text              *)
(***************************************************************************)

\* sanitize_text: max_len, the default
SANITIZE_MAX_LEN == 8000

\* the longest text given to sanitize_text
MaxSanitizeLen == 3

\* NUL, BEL, LF, ESC, US, DEL, NEL, APC and "a"
ControlAlphabet == { 0, 7, 10, 27, 31, 127, 133, 159, 97 }

beside_text == <<pc, validate_vars, pipeline_vars, summarizer_vars, state_vars, main_vars,
                 client_vars, ask_vars, chunker_vars, open_vars, fetch_vars>>

BesideTextIdle ==
    /\ pc = {}
    /\ ChunkerIdle
    /\ OpenIdle
    /\ FetchIdle
    /\ StateIdle
    /\ MainIdle
    /\ ClientIdle
    /\ AskIdle
    /\ ValidateIdle
    /\ PipelineIdle
    /\ SummarizerIdle

\* _to_str(text) of None or of a str
to_str(text) == IF text.some THEN text.text ELSE << >>

InitSanitize ==
    /\ text_in \in { None } \cup
                   { Some(t) : t \in UNION { [1..n -> ControlAlphabet] : n \in 0..MaxSanitizeLen } }
    /\ text_out = None
    /\ BesideTextIdle

\* sanitize_text(text)
Sanitize ==
    /\ ~text_out.some
    /\ text_out' = Some(sanitize_text(to_str(text_in), SANITIZE_MAX_LEN))
    /\ UNCHANGED <<text_in, beside_text>>

SpecSanitize == InitSanitize /\ [][Sanitize]_vars

\* the control characters 0x00-0x08, 0x0B-0x1F and 0x7F-0x9F
IsControl(c) == c \in 0..8 \/ c \in 11..31 \/ c \in 127..159

\* C26: the text sanitize_text returns holds no control character of the
\* ranges 0x00-0x08, 0x0B-0x1F and 0x7F-0x9F
C26_NoControlCharacters ==
    text_out.some => \A i \in 1..Len(text_out.text) : ~IsControl(text_out.text[i])

\* the most lines of a body
MaxBodyLines == 3

\* "hi", " From: x", "--", "Regards, Bob", "", "  ", "to", "a--", "FROM"
BodyLines ==
    { <<104, 105>>,
      <<32, 70, 114, 111, 109, 58, 32, 120>>,
      <<45, 45>>,
      <<82, 101, 103, 97, 114, 100, 115, 44, 32, 66, 111, 98>>,
      << >>,
      <<32, 32>>,
      <<116, 111>>,
      <<97, 45, 45>>,
      <<70, 82, 79, 77>> }

\* the line ends of a body: "\n" or "\r\n"
LineEnds == { << Newline >>, <<13, 10>> }

MarkedBodies ==
    { Join(lines, line_end) :
        lines \in UNION { [1..n -> BodyLines] : n \in 1..MaxBodyLines },
        line_end \in LineEnds }

InitClean ==
    /\ text_in \in { None } \cup { Some(body) : body \in MarkedBodies }
    /\ text_out = None
    /\ BesideTextIdle

\* clean_email_body(text)
Clean ==
    /\ ~text_out.some
    /\ text_out' = Some(clean_email_body(to_str(text_in)))
    /\ UNCHANGED <<text_in, beside_text>>

SpecClean == InitClean /\ [][Clean]_vars

\* the line, trimmed and in lower case, starts with a forward marker, a
\* signature marker or "--"
MarkerStart(line) ==
    \E marker \in FORWARD_MARKERS \cup SIGNATURE_MARKERS \cup { DASHES } :
        StartsWith(Lower(Strip(line)), marker)

\* the lines before the first line that starts with a marker
BeforeMarker(lines) ==
    SubSeq(lines, 1, (CHOOSE k \in 1..(Len(lines) + 1) :
                         /\ k <= Len(lines) => MarkerStart(lines[k])
                         /\ \A j \in 1..(k - 1) : ~MarkerStart(lines[j])) - 1)

\* the lines that are not blank, trimmed
Trimmed(lines) == SelectSeq(MapSeq(lines, Strip), Truthy)

\* C27: the text clean_email_body returns is made of the lines before the
\* first line that starts with a marker, trimmed, with no blank line at
\* either end and no two blank lines in a row; no line of it starts with a
\* marker; None and the empty text give the empty text
C27_CleanEmailCutsAtMarker ==
    text_out.some =>
        Bind(Split(normalize_newlines(to_str(text_in)), Newline), LAMBDA lines :
        Bind(Split(text_out.text, Newline), LAMBDA out_lines :
            /\ \A i \in 1..Len(out_lines) : ~MarkerStart(out_lines[i])
            /\ Trimmed(out_lines) = Trimmed(BeforeMarker(lines))
            /\ \A i \in 1..Len(out_lines) : out_lines[i] = Strip(out_lines[i])
            /\ \A i \in 2..Len(out_lines) : Truthy(out_lines[i]) \/ Truthy(out_lines[i - 1])
            /\ text_out.text = Strip(text_out.text)
            /\ ~Truthy(to_str(text_in)) => text_out.text = << >>))

\* a body whose second line is a forward header in capitals after a blank,
\* and whose first line is kept
C27_Witness ==
    /\ text_out.some
    /\ text_in.some
    /\ Split(normalize_newlines(text_in.text), Newline)
          = << <<104, 105>>, <<32, 70, 114, 111, 109, 58, 32, 120>>, <<104, 105>> >>
    /\ text_out.text = <<104, 105>>

(***************************************************************************)
(* state_manager.py: StateManager(state_file) on a file of any content     *)
(***************************************************************************)

\* values of the member "accounts": {}, an account as save writes it, an
\* account with no field, one with an unknown field, one that is null, and
\* a list
AccountsValues ==
    { << >>,
      [a |-> [DefaultAccountState EXCEPT !.last_uid = 2]],
      [a |-> << >>],
      [a |-> [last_uid |-> 1, extra |-> 2]],
      [a |-> NotAnObject],
      NotAnObject }

\* values of the member "llm"
LLMValues ==
    { DefaultLLMState(0), << >>, [tokens_used_today |-> 5, model |-> "llama"], NotAnObject }

\* values of the member "meta"
MetaValues == { DefaultMetaState(0), << >>, [version |-> "v27", schema |-> 2] }

\* a member, under its key or under another one
Members(key, values) ==
    { [key |-> k, value |-> v] : k \in { key, "x-" \o key }, v \in values }

\* well-formed JSON documents of three members
Documents ==
    { << accounts_member, llm_member, meta_member >> :
        accounts_member \in Members("accounts", AccountsValues),
        llm_member \in Members("llm", LLMValues),
        meta_member \in Members("meta", MetaValues) }

\* no file, an empty file, a file cut after its first member, and the
\* documents
StateFiles ==
    { Absent, File(<< >>), File(<< [key |-> "accounts", value |-> << >>] >>) }
    \cup { File(document) : document \in Documents }

InitOpen ==
    /\ pc = {}
    /\ state_file \in StateFiles
    /\ manager = NoManager
    /\ tmp_file = Absent
    /\ wall_clock = 0
    /\ saving = NotSaving
    /\ reopened = NoManager
    /\ mutations = 0
    /\ opened = "no"
    /\ ChunkerIdle
    /\ TextIdle
    /\ FetchIdle
    /\ MainIdle
    /\ ClientIdle
    /\ AskIdle
    /\ ValidateIdle
    /\ PipelineIdle
    /\ SummarizerIdle

\* StateManager(state_file): open() raises OSError on a file that cannot be
\* read, and _load_state returns BotState(), as for no file
OpenState ==
    /\ opened = "no"
    /\ \E readable \in BOOLEAN :
          \E file \in { IF readable THEN state_file ELSE Absent } :
             IF load_state_raises(file)
             THEN /\ opened' = "raised"
                  /\ UNCHANGED manager
             ELSE /\ opened' = IF readable THEN "opened" ELSE "unreadable"
                  /\ manager' = StateManager(file, wall_clock)
    /\ UNCHANGED <<pc, validate_vars, pipeline_vars, summarizer_vars, main_vars, client_vars,
                   ask_vars, chunker_vars, text_vars, fetch_vars, state_file, tmp_file, wall_clock,
                   saving, reopened, mutations>>

SpecOpen == InitOpen /\ [][OpenState]_vars

\* C28: StateManager(state_file) does not raise, whatever the file holds;
\* and with no file, a file that cannot be read or a file that is not JSON,
\* every account has the last_uid 0
C28_OpenNeverRaises ==
    opened # "no" =>
        /\ opened # "raised"
        /\ (opened = "unreadable" \/ ~state_file.exists \/ ~IsJSON(state_file.content)) =>
              \A login \in Logins : get_last_uid(manager, login) = 0

(***************************************************************************)
(* imap_client.py: fetch_new_messages, call after call in one process      *)
(***************************************************************************)

\* the most calls of fetch_new_messages
MaxFetches == 3

InitFetch ==
    /\ pc = {}
    /\ manager = StateManager(Absent, 0)
    /\ state_file = Absent
    /\ tmp_file = Absent
    /\ wall_clock = 0
    /\ saving = NotSaving
    /\ reopened = NoManager
    /\ mutations = 0
    /\ fetch_call = NoFetch
    /\ ChunkerIdle
    /\ TextIdle
    /\ OpenIdle
    /\ MainIdle
    /\ ClientIdle
    /\ AskIdle
    /\ ValidateIdle
    /\ PipelineIdle
    /\ SummarizerIdle

\* the pairs of an account and a UID the call returned
Returned_pairs(login, messages) == { <<login, messages[i]>> : i \in 1..Len(messages) }

\* ResilientIMAP(account, state).fetch_new_messages(): the search finds any
\* set of UIDs, and any step may fail
FetchCall ==
    /\ mutations < MaxFetches
    /\ mutations' = mutations + 1
    /\ \E login \in Logins, inbox \in SUBSET (1..MaxUid) :
          \E outcome \in FetchOutcomes(Len(new_messages(manager, login, inbox))) :
             \E done \in { fetch_new_messages(manager, login, inbox, outcome, wall_clock) } :
                /\ manager' = done.manager
                /\ fetch_call' =
                      [called |-> TRUE,
                       login |-> login,
                       inbox |-> inbox,
                       outcome |-> outcome,
                       messages |-> done.messages,
                       last_uid |-> [l \in Logins |-> get_last_uid(manager, l)],
                       last_check_time |-> get_last_check_time(manager, login),
                       seen |-> fetch_call.seen \cup Returned_pairs(login, done.messages),
                       twice |-> \/ fetch_call.twice
                                 \/ fetch_call.seen \cap Returned_pairs(login, done.messages) # {}]
    /\ UNCHANGED <<pc, validate_vars, pipeline_vars, summarizer_vars, main_vars, client_vars,
                   ask_vars, chunker_vars, text_vars, open_vars, state_file, tmp_file,
                   wall_clock, saving, reopened>>

NextFetch ==
    \/ FetchCall
    \/ Tick

SpecFetch == InitFetch /\ [][NextFetch]_vars

\* C29: no call of fetch_new_messages lowers the last_uid of an account;
\* every UID it returns is above the last_uid it found; after a call that
\* succeeds and returns messages the last_uid is the largest UID returned;
\* and no UID is returned by two calls
C29_LastUidHighWaterMark ==
    fetch_call.called =>
        /\ \A login \in Logins : get_last_uid(manager, login) >= fetch_call.last_uid[login]
        /\ \A i \in 1..Len(fetch_call.messages) :
              fetch_call.messages[i] > fetch_call.last_uid[fetch_call.login]
        /\ fetch_call.messages # << >> =>
              /\ fetch_call.outcome = Ok
              /\ \A i \in 1..Len(fetch_call.messages) :
                    fetch_call.messages[i] <= get_last_uid(manager, fetch_call.login)
              /\ \E i \in 1..Len(fetch_call.messages) :
                    fetch_call.messages[i] = get_last_uid(manager, fetch_call.login)
        /\ ~fetch_call.twice

\* a call returned UID 2 alone after earlier calls had returned UID 1 and
\* one had failed
C29_Witness ==
    /\ fetch_call.called
    /\ fetch_call.messages = << 2 >>
    /\ fetch_call.last_uid[fetch_call.login] = 1
    /\ <<fetch_call.login, 1>> \in fetch_call.seen
    /\ mutations = 3

====
